---------------------------- MODULE Spec2Model ----------------------------
(***************************************************************************)
(* Model of the terminal output multiplexer (console.py, class Console)    *)
(* and the line editor (interactive_console.py, class InteractiveConsole)  *)
(* of osu-tourney-helper.                                                   *)
(*                                                                         *)
(* Text is a sequence of tokens.  A token is a record [k, n]: k names a    *)
(* printable character ("a", " ", ">", "*", "e"), a control character      *)
(* ("\n", "\r") or an ANSI sequence ("SGR" ESC[..m colour, "SGR0" ESC[0m,  *)
(* "EL2" ESC[2K, "EL0" ESC[K, "CUU"/"CUD"/"CUF"/"CUB" ESC[nA/B/C/D,        *)
(* "DSR" ESC[6n); n is the sequence's numeric argument (0 when none).      *)
(*                                                                         *)
(* The terminal is a grid of MaxRows x MaxCols cells that wraps to the     *)
(* next row as soon as the last column is written, which is the cursor     *)
(* arithmetic console.py's move_cursor_*_relative document (offset k is    *)
(* row k div maxcols, column k mod maxcols), and scrolls at the bottom.    *)
(***************************************************************************)
EXTENDS Integers, Sequences, FiniteSets, TLC

\* ------------------------------------------------------------ bounds
MaxCols == 3        \* terminal width  (shutil.get_terminal_size().columns)
MaxRows == 6        \* terminal height (rows kept on screen)
MaxLen == 4         \* longest input buffer typed
MaxLine == 5        \* longest input buffer after a paste
MaxMoves == 2       \* cursor moves in the runs that call them alone
MaxKeys == 5        \* keystrokes delivered to the editor running alone
MaxConcKeys == 3    \* keystrokes delivered while producers run
MaxStopKeys == 2    \* keystrokes delivered after stop_event was set, past the above
MaxPasteKeys == 4   \* keystrokes delivered in the runs that paste
MaxClip == 3        \* longest clipboard text pasted
MaxWrites == 2      \* background writeln calls in one behaviour
MaxSubmits == 3     \* lines submitted in one behaviour
MaxModeCalls == 3   \* further calls of patch / restore in one run
NumBg == 2          \* background producer threads

Min(a, b) == IF a < b THEN a ELSE b
Max(a, b) == IF a > b THEN a ELSE b

\* ------------------------------------------------------------ text
Tok(k) == [k |-> k, n |-> 0]
TokN(k, n) == [k |-> k, n |-> n]
Str(ks) == [i \in 1..Len(ks) |-> Tok(ks[i])]

Chars == {"a", " "}                       \* what the user types
Printable == Chars \cup {">", "*", "e", "^"}
                   \cup {"!", "\\", "q", "u", "i", "t", "Q", "U", "I", "T"}
ColorCodes == {"SGR", "SGR0"}             \* matched by __ansi_color_regex
EscapeCodes == {"EL2", "CUU", "CUD", "CUF", "CUB", "DSR"}  \* __ansi_escape_regex
ZeroWidth == {"\r"}                       \* removed by remove_escapes' replace()

RECURSIVE Filter(_, _)
Filter(s, drop) ==
    IF s = <<>> THEN <<>>
    ELSE IF Head(s).k \in drop THEN Filter(Tail(s), drop)
         ELSE <<Head(s)>> \o Filter(Tail(s), drop)

remove_escapes(text) == Filter(text, EscapeCodes \cup ZeroWidth)
remove_escapes_and_colors(text) == Filter(remove_escapes(text), ColorCodes)

RECURSIVE Width(_)
Width(text) ==
    IF text = <<>> THEN 0
    ELSE (IF Head(text).k = "EL0" THEN 3 ELSE 1) + Width(Tail(text))

ConsoleLen(text) == Width(remove_escapes_and_colors(text))

RECURSIVE RStrip(_, _)
RStrip(text, ks) ==
    IF text # <<>> /\ text[Len(text)].k \in ks
    THEN RStrip(SubSeq(text, 1, Len(text) - 1), ks)
    ELSE text

EndsWith(text, k) == text # <<>> /\ text[Len(text)].k = k

\* ------------------------------------------------------------ terminal
BlankRow == [c \in 1..MaxCols |-> " "]
BlankScreen == [r \in 1..MaxRows |-> BlankRow]

\* r, c: the cursor (1-based).  o: the row holding the first cell of the
\* prompt drawn last (0: none on screen); the prompt starts with ">".
TermInit == [rows |-> BlankScreen, r |-> 1, c |-> 1, o |-> 0]

TermLineFeed(t) ==
    IF t.r < MaxRows THEN [t EXCEPT !.r = t.r + 1]
    ELSE [t EXCEPT !.rows = Tail(t.rows) \o <<BlankRow>>,
                   !.o = Max(0, t.o - 1)]

TermPut(t, ch) ==
    LET t1 == [t EXCEPT !.rows[t.r][t.c] = ch,
                        !.o = IF ch = ">" THEN t.r ELSE t.o]
    IN IF t.c < MaxCols THEN [t1 EXCEPT !.c = t.c + 1]
       ELSE TermLineFeed([t1 EXCEPT !.c = 1])

\* The distance a cursor movement ESC[{n}A/B/C/D moves: a parameter of 0 is the
\* default 1 (ECMA-48); a negative number is no parameter, the sequence is ignored.
Dist(n) == IF n = 0 THEN 1 ELSE Max(n, 0)

TermTok(t, tok) ==
    CASE tok.k \in Printable -> TermPut(t, tok.k)
      [] tok.k = "\n" -> TermLineFeed([t EXCEPT !.c = 1])
      [] tok.k = "\r" -> [t EXCEPT !.c = 1]
      [] tok.k = "CUU" -> [t EXCEPT !.r = Max(1, t.r - Dist(tok.n))]
      [] tok.k = "CUD" -> [t EXCEPT !.r = Min(MaxRows, t.r + Dist(tok.n))]
      [] tok.k = "CUF" -> [t EXCEPT !.c = Min(MaxCols, t.c + Dist(tok.n))]
      [] tok.k = "CUB" -> [t EXCEPT !.c = Max(1, t.c - Dist(tok.n))]
      [] tok.k = "EL2" -> [t EXCEPT !.rows[t.r] = BlankRow,
                                    !.o = IF t.o = t.r THEN 0 ELSE t.o]
      [] tok.k = "EL0" -> [t EXCEPT !.rows[t.r] =
                              [c \in 1..MaxCols |-> IF c >= t.c THEN " " ELSE @[c]]]
      [] OTHER -> t

RECURSIVE TermWrite(_, _)
TermWrite(t, text) ==
    IF text = <<>> THEN t ELSE TermWrite(TermTok(t, Head(text)), Tail(text))


\* ------------------------------------------------------------ state
Editor == 0                               \* the interactive_console thread
Bg == 1..NumBg                            \* producers calling Console.writeln
NoOwner == -1

VARIABLES
    term,        \* the terminal both sys.stdout and sys.stderr are attached to
    con,         \* class Console: _last_source, _console_stdout, _console_stderr, ...
    ed,          \* the InteractiveConsole object's fields
    lock,        \* Console._LOCK: [owner, count]
    lw,          \* each thread's live Console.LockedWriter object
    broken,      \* the streams whose write()/flush() raise (closed, broken pipe)
    out,         \* tokens the terminal received since the last operation began
    wlog,        \* the write bursts so far: who wrote, in which call, lock held?
    pcE,         \* where the editor thread stands in main_loop / _readline
    key,         \* the keystroke readkey() returned last
    line,        \* the line _readline returned to main_loop
    pcB,         \* where each background thread stands in Console.writeln
    arg,         \* each background thread's current call: [target, text]
    stop_event,  \* threading.Event shared with main_bot
    sent,        \* lines handed to bot.send_bot_command
    shutdowns,   \* calls of bot.shutdown made by the editor thread
    nkeys,       \* keystrokes delivered so far
    nwrites,     \* background calls started so far
    nenter,      \* Enter keystrokes delivered so far
    stopkeys,    \* keystrokes read after stop_event was set
    tty,         \* the terminal device: is stdout / stdin a tty, stdin's local modes
    original_stdin_mode,  \* Console.original_stdin_mode
    main         \* the main thread: where it stands in __main__, how main_bot ended

vars == <<term, con, ed, lock, lw, broken, out, wlog, pcE, key, line,
          pcB, arg, stop_event, sent, shutdowns, nkeys, nwrites, nenter, stopkeys,
          tty, original_stdin_mode, main>>

\* The part of the state the code of Console and InteractiveConsole works on,
\* as one record handed from statement to statement; exc is the exception
\* propagating in the running thread ("" when none).
Cur == [term |-> term, con |-> con, ed |-> ed, lock |-> lock, lw |-> lw,
        exc |-> "", broken |-> broken, out |-> out, wlog |-> wlog]

Commit(s) ==
    /\ term' = s.term
    /\ con' = s.con
    /\ ed' = s.ed
    /\ lock' = s.lock
    /\ lw' = s.lw
    /\ out' = s.out
    /\ wlog' = s.wlog
    /\ UNCHANGED broken

\* A statement runs only while no exception is propagating.
Stmt(s, s2) == IF s.exc # "" THEN s ELSE s2

\* who = <<thread, number of the thread's call>>
ThreadOf(who) == who[1]

\* ------------------------------------------------------------ the lock
\* threading.RLock: acquire() by the owner nests; the caller has checked that
\* the lock is free or its own (CanAcquire).  An operator that models a
\* `with Console._LOCK:` block returns its argument when an exception is
\* already propagating: the block is never entered.
\* Fault model: an acquire() that does not wait for the owner.
CanAcquire_NoWait(l, th) == TRUE

\* _LOCK is an RLock: acquire() returns when the lock is free or the caller
\* owns it.
CanAcquire(l, th) == l.owner \in {NoOwner, th}

Acquire(s, th) == Stmt(s, [s EXCEPT !.lock = [owner |-> th, count |-> s.lock.count + 1]])

\* release() runs in `finally` / at the end of `with`, exception or not.
Release(s, th) ==
    [s EXCEPT !.lock = IF s.lock.count <= 1 THEN [owner |-> NoOwner, count |-> 0]
                        ELSE [owner |-> th, count |-> s.lock.count - 1]]

\* ------------------------------------------------------------ stream writes
LogBurst(log, who, held) ==
    LET e == [w |-> who, held |-> held]
    IN IF log # <<>> /\ log[Len(log)] = e THEN log ELSE Append(log, e)

\* target.write(text): raises when the stream is broken, else the terminal
\* interprets the text.
Write(s, who, tn, text) ==
    Stmt(s, IF text = <<>> THEN s
            ELSE IF tn \in s.broken THEN [s EXCEPT !.exc = "OSError"]
            ELSE [s EXCEPT !.term = TermWrite(s.term, text),
                           !.out = s.out \o text,
                           !.wlog = LogBurst(s.wlog, who, s.lock.owner = ThreadOf(who))])

Flush(s, tn) == Stmt(s, IF tn \in s.broken THEN [s EXCEPT !.exc = "OSError"] ELSE s)

\* ------------------------------------------------------------ the prompt
\* InteractiveConsole.__get_console_prompt, scaled: ">> console (!q to quit)"
\* is ">", the trailing ": " is left out.
PromptText(insert_mode) ==
    <<Tok("SGR"), Tok(">")>>
    \o (IF insert_mode THEN <<Tok("SGR0"), Tok("SGR"), Tok("*")>> ELSE <<Tok(" ")>>)
    \o <<Tok("SGR0")>>

\* InteractiveConsole.get_console_prompt: its value ...
get_console_prompt_value(s) ==
    IF s.ed.stopped THEN <<>> ELSE PromptText(s.ed.insert_mode)

\* ... and its effect on the editor's cached prompt.  prompt_thread records
\* the thread that made the two assignments: the callbacks of Console run in
\* the thread that holds Console._LOCK, main_loop calls without the lock.
get_console_prompt_effect(s) ==
    Stmt(s, IF s.ed.stopped THEN s
            ELSE [s EXCEPT !.ed.console_prompt = PromptText(s.ed.insert_mode),
                           !.ed.console_prompt_len = ConsoleLen(PromptText(s.ed.insert_mode)),
                           !.ed.prompt_thread = IF s.lock.owner = NoOwner THEN Editor
                                                ELSE s.lock.owner])

\* ------------------------------------------------------------ Console callbacks
\* Console._get_console_prompt
Console_get_console_prompt(s) ==
    IF s.con.registered
    THEN remove_escapes(get_console_prompt_value(s))
    ELSE remove_escapes(s.con.console_stdout)

\* Console._get_console_stdout; the registered lambda is
\*   [] if sum(len(s) for s in current_input) == 0
\*      else [self.get_console_prompt(), *self.current_input]
Console_get_console_stdout(s) ==
    IF s.con.registered
    THEN IF Len(s.ed.current_input) = 0 THEN <<>>
         ELSE remove_escapes(get_console_prompt_value(s) \o s.ed.current_input)
    ELSE remove_escapes(s.con.console_stdout)

\* Console._get_console_stderr; the registered lambda is `lambda: []`
Console_get_console_stderr(s) ==
    IF s.con.registered THEN <<>> ELSE remove_escapes(s.con.console_stderr)

\* Console._get_console_cursor_offset
Console_get_console_cursor_offset(s) ==
    IF s.con.registered
    THEN s.ed.current_input_idx + s.ed.console_prompt_len
    ELSE ConsoleLen(Console_get_console_stdout(s))

\* The state after the callbacks of one query ran: the stdout lambda calls
\* get_console_prompt() when the input is not empty.
AfterStdoutCallback(s) ==
    IF s.con.registered /\ Len(s.ed.current_input) > 0
    THEN get_console_prompt_effect(s) ELSE s

AfterPromptCallback(s) ==
    IF s.con.registered THEN get_console_prompt_effect(s) ELSE s

\* Console._format_text
Console_format_text(s, text) ==
    IF text = <<>> THEN <<>>
    ELSE IF s.con.enable_colors THEN text
    ELSE Filter(text, ColorCodes)

\* ------------------------------------------------------------ cursor moves
\* Console.move_cursor_right_relative, and move_cursor_left_relative below:
\* they call each other for a negative n.
RECURSIVE move_cursor_left_relative(_, _, _, _, _)
move_cursor_right_relative(s, who, n, cursor_offset, tn) ==
    IF n = 0 \/ s.exc # "" THEN s
    ELSE IF n < 0 THEN move_cursor_left_relative(s, who, -n, cursor_offset, tn)
    ELSE LET maxcols == MaxCols
             cursor_row_offset == cursor_offset \div maxcols
             col == cursor_offset % maxcols
             col_target == col + n
             s1 == Acquire(s, ThreadOf(who))
             s2 == IF col_target < maxcols
                   THEN Write(s1, who, tn, <<TokN("CUF", n)>>)
                   ELSE LET row_target == col_target \div maxcols
                            col_target2 == col_target % maxcols
                            nrows == row_target - cursor_row_offset
                        IN Write(s1, who, tn,
                                 <<TokN("CUD", nrows), Tok("\r")>>
                                 \o (IF col_target2 > 0
                                     THEN <<TokN("CUF", col_target2)>> ELSE <<>>))
         IN Release(s2, ThreadOf(who))

move_cursor_left_relative(s, who, n0, cursor_offset, tn) ==
    LET n == Min(n0, cursor_offset)
    IN IF n = 0 \/ s.exc # "" THEN s
       ELSE IF n < 0 THEN move_cursor_right_relative(s, who, -n, cursor_offset, tn)
       ELSE LET maxcols == MaxCols
                col == cursor_offset % maxcols
                col_target == col - n
                s1 == Acquire(s, ThreadOf(who))
                s2 == IF col_target >= 0
                      THEN Write(s1, who, tn, <<TokN("CUB", n)>>)
                      ELSE LET nrows == ((-col_target) \div maxcols) + 1
                               ncols == (-col_target) % maxcols
                           IN Write(s1, who, tn,
                                    <<TokN("CUU", nrows), Tok("\r")>>
                                    \o (IF maxcols - ncols > 0
                                        THEN <<TokN("CUF", maxcols - ncols)>>
                                        ELSE <<>>))
            IN Release(s2, ThreadOf(who))

\* ------------------------------------------------------------ erase
\* for i in range(num_lines, 1, -1): write '\r', ESC[2K, ESC[1A
RECURSIVE EraseLinesUp(_)
EraseLinesUp(i) ==
    IF i <= 1 THEN <<>>
    ELSE <<Tok("\r"), Tok("EL2"), TokN("CUU", 1)>> \o EraseLinesUp(i - 1)

\* erase_console_output: console_output = Console._get_console_stdout() / _stderr()
eco_output(s, tn) ==
    IF tn = "stderr" THEN Console_get_console_stderr(s) ELSE Console_get_console_stdout(s)

\* ... and the state once that callback has run
eco_callbacks(s, tn) == IF tn = "stderr" THEN s ELSE AfterStdoutCallback(s)

\* erase_console_output: `if console_output_len > 0:` move to the start of the
\* console output and erase all its lines but the first
eco_lines(s, who, tn) ==
    IF ConsoleLen(eco_output(s, tn)) > 0
    THEN Write(move_cursor_left_relative(s, who, Console_get_console_cursor_offset(s),
                                         Console_get_console_cursor_offset(s), tn),
               who, tn, EraseLinesUp(1 + ConsoleLen(eco_output(s, tn)) \div MaxCols))
    ELSE s

\* Console.erase_console_output
erase_console_output(s, who, tn) ==
    IF s.con.last_source # "c" \/ s.exc # "" THEN s
    ELSE Release(Write(eco_lines(eco_callbacks(Acquire(s, ThreadOf(who)), tn), who, tn),
                       who, tn, <<Tok("\r"), Tok("EL2"), Tok("SGR0")>>),
                 ThreadOf(who))

\* ------------------------------------------------------------ cursor query
\* What print() writes when __get_cursor_pos(warn=True) fails.
DiagText == <<Tok("^"), Tok("\n")>>

\* Console.get_cursor_pos, the column it returns: the terminal's reply gives
\* the cursor's column (1-based); (-1, -1) when both attempts fail.
get_cursor_pos_col(s, replied) == IF replied THEN s.term.c ELSE -1

\* sys.__stdin__.read(minlen): raises when the stream is broken.
Read(s) == Stmt(s, IF "stdin" \in s.broken THEN [s EXCEPT !.exc = "OSError"] ELSE s)

\* __get_cursor_pos, `except Exception:` entered before `buffer` is bound (the
\* write of the query or the first read raised).  The first attempt
\* (warn=False) returns (-1, -1); the second (warn=True) evaluates
\* print(f"Error reading respstr: {buffer}..."), and the unbound local raises
\* UnboundLocalError out of the handler and out of get_cursor_pos.
gcp_except(s) == IF s.exc = "" THEN s ELSE [s EXCEPT !.exc = "UnboundLocalError"]

\* Console.get_cursor_pos, its writes: the query ESC[6n, then the blocking
\* read of the reply; when the reply does not parse, the second attempt
\* (warn=True) writes the query again and prints its warning.  When the write
\* of the query raises, so does the write of the second attempt.
get_cursor_pos_query(s, who) ==
    gcp_except(Write(Acquire(s, ThreadOf(who)), who, "stdout", <<Tok("DSR")>>))

\* When the read raises, the second attempt writes the query and its read
\* raises again.
get_cursor_pos_reply(s, who, replied) ==
    Release(gcp_except(IF "stdin" \in s.broken
                       THEN Read(Write(s, who, "stdout", <<Tok("DSR")>>))
                       ELSE IF replied THEN s
                       ELSE Write(s, who, "stdout", <<Tok("DSR")>> \o DiagText)),
            ThreadOf(who))

get_cursor_pos(s, who, replied) ==
    IF s.exc # "" THEN s
    ELSE get_cursor_pos_reply(get_cursor_pos_query(s, who), who, replied)

\* ------------------------------------------------------------ Console._write
ConsoleBuffer(s, tn) ==
    IF tn = "stderr" THEN s.con.console_stderr ELSE s.con.console_stdout

SetConsoleBuffer(s, tn, buf) ==
    Stmt(s, IF tn = "stderr" THEN [s EXCEPT !.con.console_stderr = buf]
            ELSE [s EXCEPT !.con.console_stdout = buf])

\* Console.__console_write queries the cursor when the last writer was not
\* the console and the pending console buffer is empty.
NeedsCursorQuery(s, tn) ==
    s.con.last_source # "c" /\ ConsoleLen(ConsoleBuffer(s, tn)) = 0

\* __console_write: rewrite the prev console buffer on a new line
cw_rewrite(s, who, tn) ==
    IF s.con.last_source # "c" /\ ConsoleLen(ConsoleBuffer(s, tn)) > 0
    THEN Write(s, who, tn, <<Tok("\n")>> \o ConsoleBuffer(s, tn))
    ELSE s

\* Console.__console_write up to the call of get_cursor_pos (lock acquired,
\* not yet released).
console_write_head(s, who, tn) == cw_rewrite(Acquire(s, ThreadOf(who)), who, tn)

\* __console_write: `if col > 1: target.write('\n')`
cw_newline(s, who, tn, col) == IF col > 1 THEN Write(s, who, tn, <<Tok("\n")>>) ELSE s

\* __console_write: update buffer
cw_buffer(s, tn, text) ==
    IF ~EndsWith(text, "\n")
    THEN SetConsoleBuffer(s, tn, ConsoleBuffer(s, tn) \o remove_escapes(text))
    ELSE SetConsoleBuffer(s, tn, <<>>)

\* __console_write: Console._last_source = 'c'
cw_mark(s) == Stmt(s, [s EXCEPT !.con.last_source = "c"])

\* Console.__console_write from the return of get_cursor_pos (col; 0 when it
\* was not called) to the release of the lock.
console_write_tail(s, who, tn, text0, col) ==
    Release(cw_mark(cw_buffer(Write(cw_newline(s, who, tn, col), who, tn,
                                    Console_format_text(s, text0)),
                              tn, Console_format_text(s, text0))),
            ThreadOf(who))

\* __console_write after its first lines; replied: whether the terminal
\* answers the cursor query, should the call make one.
cw_query(s, who, tn, text, replied) ==
    IF NeedsCursorQuery(s, tn)
    THEN console_write_tail(get_cursor_pos(s, who, replied), who, tn, text,
                            get_cursor_pos_col(s, replied))
    ELSE console_write_tail(s, who, tn, text, 0)

\* Console._write / Console.__console_write as one call.
Console_write(s, who, tn, text, replied) ==
    IF s.exc # "" THEN s
    ELSE cw_query(console_write_head(s, who, tn), who, tn, text, replied)

\* ------------------------------------------------------------ LockedWriter
NoWriter == [target_name |-> "stdout", source |-> "", prev_console_output |-> <<>>,
             last_source |-> "", last_text |-> <<>>]

\* LockedWriter.__init__, and `self.last_source = Console._last_source`
lw_new(s, th, tn, source) ==
    [s EXCEPT !.lw[th] = [NoWriter EXCEPT !.target_name = tn, !.source = source,
                                          !.last_source = s.con.last_source]]

\* __enter__: the value of self.prev_console_output ...
lw_prev_value(s, tn) ==
    IF tn = "stderr" THEN Console_get_console_stderr(s)
    ELSE IF Console_get_console_stdout(s) = <<>>
    THEN Console_get_console_prompt(AfterStdoutCallback(s))
    ELSE Console_get_console_stdout(s)

\* ... and the state once the callbacks that gave it have run
lw_prev_effect(s, tn) ==
    IF tn = "stderr" THEN s
    ELSE IF Console_get_console_stdout(s) = <<>>
    THEN AfterPromptCallback(AfterStdoutCallback(s))
    ELSE AfterStdoutCallback(s)

lw_prev(s, th, tn) ==
    [lw_prev_effect(s, tn) EXCEPT !.lw[th].prev_console_output = lw_prev_value(s, tn)]

\* __enter__ after Console._LOCK.acquire()
lw_enter_body(s, who, tn, source) ==
    IF s.lw[ThreadOf(who)].last_source = "c" /\ source = "c" THEN s
    ELSE erase_console_output(lw_prev(s, ThreadOf(who), tn), who, tn)

\* Console.LockedWriter.__init__ and __enter__
LockedWriter_enter(s, who, tn, source) ==
    lw_enter_body(lw_new(Acquire(s, ThreadOf(who)), ThreadOf(who), tn, source),
                  who, tn, source)

EndsWithNewline(text) == EndsWith(RStrip(text, {" "}), "\n")

\* self.target.write(text); self.last_text = text
lw_echo(s, who, text) ==
    Stmt(Write(s, who, s.lw[ThreadOf(who)].target_name, text),
         [Write(s, who, s.lw[ThreadOf(who)].target_name, text)
             EXCEPT !.lw[ThreadOf(who)].last_text = text])

\* writeln: `if not text.rstrip(' \t\b').endswith('\n'): text += '\n'`
lw_line(text) == IF ~EndsWithNewline(text) THEN text \o <<Tok("\n")>> ELSE text

\* writeln: `if self.source == 'c': self.console_buffer.clear()`
lw_clear(s, th) ==
    IF s.lw[th].source = "c" THEN SetConsoleBuffer(s, s.lw[th].target_name, <<>>) ELSE s

\* Console.LockedWriter.writeln
LockedWriter_writeln(s, who, text0) ==
    lw_clear(lw_echo(s, who, lw_line(Console_format_text(s, text0))), ThreadOf(who))

\* write: the update of the console buffer
lw_track(s, th, text) ==
    IF s.lw[th].source # "c" THEN s
    ELSE IF ~EndsWith(text, "\n")
    THEN SetConsoleBuffer(s, s.lw[th].target_name,
                          ConsoleBuffer(s, s.lw[th].target_name) \o remove_escapes(text))
    ELSE SetConsoleBuffer(s, s.lw[th].target_name, <<>>)

\* Console.LockedWriter.write
LockedWriter_write(s, who, text0) ==
    lw_track(lw_echo(s, who, Console_format_text(s, text0)), ThreadOf(who),
             Console_format_text(s, text0))

\* __exit__: `self.last_source == self.source == 'c'`
lw_both(w) == w.last_source = "c" /\ w.source = "c"

\* __exit__: Console._format_text(self.prev_console_output).rstrip('\n')
lw_prev_text(s, w) == RStrip(Console_format_text(s, w.prev_console_output), {"\n"})

\* __exit__: `if not last_text_endswith_newline: self.target.write('\n')`
lw_exit_newline(s, who, w) ==
    IF ~lw_both(w) /\ ~EndsWithNewline(w.last_text)
    THEN Write(s, who, w.target_name, <<Tok("\n")>>) ELSE s

\* __exit__: `self.target.write(prev_console_output)`
lw_exit_redraw(s, who, w) ==
    IF ~lw_both(w) /\ ConsoleLen(lw_prev_text(s, w)) > 0
    THEN Write(s, who, w.target_name, lw_prev_text(s, w)) ELSE s

\* __exit__: `if self.source == 'c': if last_text_endswith_newline: clear()`
lw_exit_clear(s, w) ==
    IF w.source = "c" /\ EndsWithNewline(w.last_text)
    THEN SetConsoleBuffer(s, w.target_name, <<>>) ELSE s

\* Fault model: the marker set to the writer's source, redraw or not.
lw_exit_final_SourceOnly(s, th, w, rewrote, exc0) ==
    Release([s EXCEPT !.con.last_source = w.source,
                      !.exc = IF s.exc # "" THEN s.exc ELSE exc0], th)

\* __exit__, `finally`: the last-writer marker, the release; exc0 is the
\* exception the body of the with block raised, which __exit__ lets through.
lw_exit_final(s, th, w, rewrote, exc0) ==
    Release([s EXCEPT !.con.last_source = IF rewrote THEN "c" ELSE w.source,
                      !.exc = IF s.exc # "" THEN s.exc ELSE exc0], th)

\* __exit__ from `if self.source == 'c'` on; s is the state after the redraw
lw_exit_flush(s, th, w, exc0) ==
    lw_exit_final(Flush(lw_exit_clear(s, w), w.target_name), th, w,
                  ~lw_both(w) /\ ConsoleLen(lw_prev_text(s, w)) > 0 /\ s.exc = "", exc0)

\* Console.LockedWriter.__exit__: the try block runs whether or not the body
\* raised; `finally` sets the last-writer marker and releases the lock.
LockedWriter_exit(s, who) ==
    lw_exit_flush(lw_exit_redraw(lw_exit_newline([s EXCEPT !.exc = ""], who,
                                                 s.lw[ThreadOf(who)]),
                                 who, s.lw[ThreadOf(who)]),
                  ThreadOf(who), s.lw[ThreadOf(who)], s.exc)

\* ------------------------------------------------------------ the editor
EdInit == [stopped |-> FALSE, insert_mode |-> FALSE, history |-> <<>>,
           history_idx |-> 0, current_input |-> <<>>, current_input_idx |-> 0,
           console_prompt |-> PromptText(FALSE),
           console_prompt_len |-> ConsoleLen(PromptText(FALSE)),
           prompt_thread |-> Editor]

SetInput(s, buf) == Stmt(s, [s EXCEPT !.ed.current_input = buf])
SetIdx(s, i) == Stmt(s, [s EXCEPT !.ed.current_input_idx = i])

\* Fault model: a move to the left that is not clamped to the buffer.
move_cursor_left_Unclamped(s, who, n0) ==
    SetIdx(move_cursor_left_relative(
               s, who, n0, s.ed.console_prompt_len + s.ed.current_input_idx, "stdout"),
           s.ed.current_input_idx - n0)

\* InteractiveConsole.move_cursor_left
move_cursor_left(s, who, n0) ==
    LET max_move == Max(0, s.ed.current_input_idx)
        n == Min(n0, max_move)
        s1 == move_cursor_left_relative(
                  s, who, n, s.ed.console_prompt_len + s.ed.current_input_idx, "stdout")
    IN SetIdx(s1, s.ed.current_input_idx - n)

\* InteractiveConsole.move_cursor_right
move_cursor_right(s, who, n0) ==
    LET max_move == Max(0, Len(s.ed.current_input) - s.ed.current_input_idx)
        n == Min(n0, max_move)
        s1 == move_cursor_right_relative(
                  s, who, n, s.ed.console_prompt_len + s.ed.current_input_idx, "stdout")
    IN SetIdx(s1, s.ed.current_input_idx + n)

\* for i in range(num_current_lines, 0, -1): '\r', ESC[2K, and ESC[1A if i > 1
RECURSIVE EraseCurrentLines(_)
EraseCurrentLines(i) ==
    IF i <= 0 THEN <<>>
    ELSE <<Tok("\r"), Tok("EL2")>> \o (IF i > 1 THEN <<TokN("CUU", 1)>> ELSE <<>>)
         \o EraseCurrentLines(i - 1)

\* erase_current_stdin: move the cursor to the end of the input
ecs_to_end(s, who) ==
    IF s.ed.current_input_idx < ConsoleLen(s.ed.current_input)
    THEN move_cursor_right(s, who, ConsoleLen(s.ed.current_input) - s.ed.current_input_idx)
    ELSE s

\* erase_current_stdin: the rows it takes the prompt and the input to cover
num_current_lines(s) ==
    IF ConsoleLen(s.ed.current_input) + s.ed.console_prompt_len <= MaxCols THEN 1
    ELSE 2 + (ConsoleLen(s.ed.current_input) + s.ed.console_prompt_len - MaxCols)
             \div MaxCols

ecs_erase(s, who) == Write(s, who, "stdout", EraseCurrentLines(num_current_lines(s)))

\* erase_current_stdin: Console._write(self.get_console_prompt())
ecs_prompt(s, who, replied) ==
    Console_write(get_console_prompt_effect(s), who, "stdout",
                  get_console_prompt_value(s), replied)

\* erase_current_stdin: ESC[0m, ESC[K, clear the input
ecs_clear(s, who) ==
    SetIdx(SetInput(Write(s, who, "stdout", <<Tok("SGR0"), Tok("EL0")>>), <<>>), 0)

\* InteractiveConsole.erase_current_stdin
erase_current_stdin(s, who, replied) ==
    IF s.exc # "" THEN s
    ELSE Release(ecs_clear(ecs_prompt(ecs_erase(ecs_to_end(
                     Acquire(s, ThreadOf(who)), who), who), who, replied), who),
                 ThreadOf(who))

\* replace_current_stdin_with_history after erase_current_stdin and clear()
rcs_show(s, who, history_idx, prev_input, prev_pos, history) ==
    IF history_idx = -1
    THEN move_cursor_left(
             SetIdx(LockedWriter_write(SetInput(s, prev_input), who, prev_input),
                    Len(prev_input)),
             who, Len(prev_input) - prev_pos)
    ELSE IF history_idx >= 0 /\ history_idx < Len(history)
    THEN SetIdx(LockedWriter_write(SetInput(s, history[history_idx + 1]), who,
                                   history[history_idx + 1]),
                Len(history[history_idx + 1]))
    ELSE s

\* InteractiveConsole.replace_current_stdin_with_history
replace_current_stdin_with_history(s, who, history_idx, replied) ==
    rcs_show(SetInput(erase_current_stdin(s, who, replied), <<>>), who, history_idx,
             s.ed.current_input, s.ed.current_input_idx, s.ed.history)

\* ------------------------------------------------------------ keystrokes
EnterKeys == {"ENTER", "CR", "LF"}
NoOpKeys == {"TAB", "CTRL_R", "ESC", "F1"}     \* F1: any other special key
SpecialKeys == EnterKeys \cup NoOpKeys \cup
               {"UP", "DOWN", "LEFT", "RIGHT", "CTRL_LEFT", "CTRL_RIGHT", "HOME",
                "END", "BACKSPACE", "DELETE", "INSERT", "CTRL_V"}

Drop(seq, i) == [j \in 1..(Len(seq) - 1) |-> IF j < i THEN seq[j] ELSE seq[j + 1]]
From(seq, i) == SubSeq(seq, i, Len(seq))          \* seq[i-1:] of the 0-based source

\* str.strip() of the joined input
RECURSIVE LStrip(_)
LStrip(text) ==
    IF text # <<>> /\ Head(text).k \in {" ", "\n"} THEN LStrip(Tail(text)) ELSE text

\* Fault model: the line returned as typed.
StripLine_Raw(text) == text

\* line = ''.join(self.current_input).strip()
StripLine(text) == LStrip(RStrip(text, {" ", "\n"}))

\* cfg.max_history_lines (config.py), scaled
max_history_lines == 2

\* Fault model: history.append(...) without the cut.
NextHistory_Uncapped(history, input) == Append(history, input)

\* the Enter branch: history.append(...) and the cut to max_history_lines
NextHistory(history, input) ==
    IF max_history_lines > 0 /\ Len(history) + 1 > max_history_lines
    THEN From(Append(history, input), Len(history) + 1 - max_history_lines + 1)
    ELSE Append(history, input)

\* _readline, the Enter branch; it returns StripLine of the input it had.
\* Fault model: an Enter that leaves the history cursor where it was.
KeyEnter_Browsing(s, who) ==
    SetIdx(SetInput(LockedWriter_write(
                        [s EXCEPT !.ed.history = NextHistory(s.ed.history, s.ed.current_input)],
                        who, <<Tok("\n")>>),
                    <<>>), 0)

KeyEnter(s, who) ==
    SetIdx(SetInput(LockedWriter_write(
                        [s EXCEPT !.ed.history = NextHistory(s.ed.history, s.ed.current_input),
                                  !.ed.history_idx =
                                      Len(NextHistory(s.ed.history, s.ed.current_input))],
                        who, <<Tok("\n")>>),
                    <<>>), 0)

KeyUp(s, who, replied) ==
    LET s1 == IF s.ed.history_idx > 0
              THEN [s EXCEPT !.ed.history_idx = s.ed.history_idx - 1] ELSE s
    IN replace_current_stdin_with_history(s1, who, s1.ed.history_idx, replied)

KeyDown(s, who, replied) ==
    LET s1 == IF s.ed.history_idx <= Len(s.ed.history) - 1
              THEN [s EXCEPT !.ed.history_idx = s.ed.history_idx + 1] ELSE s
    IN replace_current_stdin_with_history(s1, who, s1.ed.history_idx, replied)

\* next((idx for idx, c in enumerate(reversed(input[:cursor-1]), 1) if c == ' '), cursor)
NumMovesLeft(buf, idx) ==
    LET hits == {i \in 1..(idx - 1) : buf[idx - i].k = " "}
    IN IF hits = {} THEN idx ELSE CHOOSE i \in hits : \A j \in hits : i <= j

KeyCtrlLeft(s, who) ==
    IF s.ed.current_input_idx <= 1 THEN s
    ELSE LET n == NumMovesLeft(s.ed.current_input, s.ed.current_input_idx)
         IN IF n > 0 THEN move_cursor_left(s, who, n) ELSE s

\* next((idx for idx, c in enumerate(input[cursor+1:], 2) if c == ' '), n-1 - cursor)
NumMovesRight(buf, idx) ==
    LET hits == {i \in 2..(Len(buf) - idx) : buf[idx + i].k = " "}
    IN IF hits = {} THEN Len(buf) - 1 - idx ELSE CHOOSE i \in hits : \A j \in hits : i <= j

KeyCtrlRight(s, who) ==
    IF s.ed.current_input_idx >= Len(s.ed.current_input) - 1 THEN s
    ELSE LET n == NumMovesRight(s.ed.current_input, s.ed.current_input_idx)
         IN IF n > 0 THEN move_cursor_right(s, who, n) ELSE s

KeyHome(s, who) ==
    IF s.ed.current_input_idx > 0
    THEN SetIdx(move_cursor_left(s, who, s.ed.current_input_idx), 0)
    ELSE s

KeyEnd(s, who) ==
    LET n == Len(s.ed.current_input)
    IN IF s.ed.current_input_idx < n
       THEN SetIdx(move_cursor_right(s, who, n - s.ed.current_input_idx), n)
       ELSE s

\* Backspace: `if nr > 0: w.write(''.join(self.current_input[idx+1:]))`
bs_tail(s, who, nr) ==
    IF nr > 0
    THEN LockedWriter_write(s, who, From(s.ed.current_input, s.ed.current_input_idx + 2))
    ELSE s

\* Backspace/Delete: w.write(' '), current_input_idx = n, move_cursor_left(k)
bs_blank(s, who, n, k) ==
    move_cursor_left(SetIdx(LockedWriter_write(s, who, <<Tok(" ")>>), n), who, k)

\* Fault model: the last element removed wherever the cursor is.
bs_remove_Last(s, idx, n) == SetInput(s, SubSeq(s.ed.current_input, 1, n - 1))

\* Backspace/Delete: `if idx < n: del current_input[idx] else: del current_input[-1]`
bs_remove(s, idx, n) ==
    IF idx < n THEN SetInput(s, Drop(s.ed.current_input, idx + 1))
    ELSE SetInput(s, SubSeq(s.ed.current_input, 1, n - 1))

\* Backspace after self.move_cursor_left(1)
bs_rest(s, who, n, nr) ==
    IF nr >= 0
    THEN bs_remove(bs_blank(bs_tail(s, who, nr), who, n, nr + 1), s.ed.current_input_idx, n)
    ELSE s

KeyBackspace(s, who) ==
    IF Len(s.ed.current_input) > 0 /\ s.ed.current_input_idx > 0
    THEN bs_rest(move_cursor_left(s, who, 1), who, Len(s.ed.current_input),
                 Len(s.ed.current_input) - s.ed.current_input_idx)
    ELSE s

KeyDelete(s, who) ==
    IF Len(s.ed.current_input) > 0 /\ Len(s.ed.current_input) - s.ed.current_input_idx > 0
    THEN bs_remove(bs_blank(LockedWriter_write(s, who, From(s.ed.current_input,
                                                            s.ed.current_input_idx + 2)),
                            who, Len(s.ed.current_input),
                            Len(s.ed.current_input) - s.ed.current_input_idx),
                   s.ed.current_input_idx, Len(s.ed.current_input))
    ELSE s

KeyInsert(s, who, replied) ==
    replace_current_stdin_with_history(
        [s EXCEPT !.ed.insert_mode = ~s.ed.insert_mode], who, -1, replied)

\* Ctrl+V, not at the end, not insert mode: rewrite the right hand side,
\* restore the cursor, update the input
paste_rhs(s, who, buf, idx, text) ==
    SetInput(move_cursor_left(
                 SetIdx(LockedWriter_write(s, who, From(buf, idx + 1)),
                        Len(buf) + Len(text)),
                 who, Len(From(buf, idx + 1))),
             SubSeq(buf, 1, idx) \o text \o From(buf, idx + 1))

\* Fault model: a paste that inserts whatever insert_mode is.
paste_rest_NoOverwrite(s, who, buf, idx, text, insert_mode) ==
    IF idx >= Len(buf)
    THEN SetIdx(SetInput(s, buf \o text), idx + Len(text))
    ELSE paste_rhs(s, who, buf, idx, text)

\* Ctrl+V after w.write(text); buf and idx are the input and the cursor before
paste_rest(s, who, buf, idx, text, insert_mode) ==
    IF idx >= Len(buf)
    THEN SetIdx(SetInput(s, buf \o text), idx + Len(text))
    ELSE IF ~insert_mode
    THEN paste_rhs(s, who, buf, idx, text)
    ELSE SetIdx(SetInput(s, SubSeq(buf, 1, idx) \o text \o From(buf, idx + Len(text) + 1)),
                idx + Len(text))

\* text = pyperclip.paste()
KeyCtrlV(s, who, text) ==
    paste_rest(LockedWriter_write(s, who, text), who, s.ed.current_input,
               s.ed.current_input_idx, text, s.ed.insert_mode)

\* Fault model: the insertion without the final move_cursor_left(n).
char_rhs_NoRestore(s, who, buf, idx, ch) ==
    SetIdx(SetInput(LockedWriter_write(s, who, From(buf, idx + 1)),
                    SubSeq(buf, 1, idx) \o <<Tok(ch)>> \o From(buf, idx + 1)),
           Len(buf) + 1)

\* Fault model: a normal character handled without regard to insert_mode.
char_rest_NoOverwrite(s, who, buf, idx, ch, insert_mode) ==
    IF idx >= Len(buf)
    THEN SetIdx(SetInput(s, Append(buf, Tok(ch))), idx + 1)
    ELSE SetIdx(SetInput(s, SubSeq(buf, 1, idx) \o <<Tok(ch)>> \o From(buf, idx + 1)),
                idx + 1)

\* a normal character, not at the end, not insert mode
char_rhs(s, who, buf, idx, ch) ==
    move_cursor_left(
        SetIdx(SetInput(LockedWriter_write(s, who, From(buf, idx + 1)),
                        SubSeq(buf, 1, idx) \o <<Tok(ch)>> \o From(buf, idx + 1)),
               Len(buf) + 1),
        who, Len(buf) - idx)

\* a normal character after w.write(ch)
char_rest(s, who, buf, idx, ch, insert_mode) ==
    IF idx >= Len(buf)
    THEN SetIdx(SetInput(s, Append(buf, Tok(ch))), idx + 1)
    ELSE IF insert_mode
    THEN SetIdx(SetInput(s, [buf EXCEPT ![idx + 1] = Tok(ch)]), idx + 1)
    ELSE char_rhs(s, who, buf, idx, ch)

\* the final else branch: a normal character
KeyChar(s, who, ch) ==
    char_rest(LockedWriter_write(s, who, <<Tok(ch)>>), who, s.ed.current_input,
              s.ed.current_input_idx, ch, s.ed.insert_mode)

\* The body of `with Console.LockedWriter(source='c') as w:` in _readline.
ProcessKey(s, who, ch, clip, replied) ==
    LET s0 == [s EXCEPT !.ed.current_input_idx =
                   Max(0, Min(s.ed.current_input_idx, Len(s.ed.current_input)))]
    IN CASE ch \in EnterKeys -> KeyEnter(s0, who)
         [] ch = "UP" -> KeyUp(s0, who, replied)
         [] ch = "DOWN" -> KeyDown(s0, who, replied)
         [] ch = "LEFT" -> move_cursor_left(s0, who, 1)
         [] ch = "RIGHT" -> move_cursor_right(s0, who, 1)
         [] ch = "CTRL_LEFT" -> KeyCtrlLeft(s0, who)
         [] ch = "CTRL_RIGHT" -> KeyCtrlRight(s0, who)
         [] ch = "HOME" -> KeyHome(s0, who)
         [] ch = "END" -> KeyEnd(s0, who)
         [] ch = "BACKSPACE" -> KeyBackspace(s0, who)
         [] ch = "DELETE" -> KeyDelete(s0, who)
         [] ch = "INSERT" -> KeyInsert(s0, who, replied)
         [] ch = "CTRL_V" -> KeyCtrlV(s0, who, clip)
         [] ch \in NoOpKeys -> s0
         [] OTHER -> KeyChar(s0, who, ch)

\* ------------------------------------------------------------ initial state
ConInit == [last_source |-> "", console_stdout |-> <<>>, console_stderr |-> <<>>,
            registered |-> FALSE, enable_colors |-> TRUE]

NoArg == [target |-> "stdout", text |-> <<>>, exc |-> "", op |-> 0]

\* The editor, the lock and the producers after construction.
InitRest ==
    /\ ed = EdInit
    /\ lock = [owner |-> NoOwner, count |-> 0]
    /\ lw = [th \in {Editor} \cup Bg |-> NoWriter]
    /\ broken = {}
    /\ out = <<>>
    /\ wlog = <<>>
    /\ pcE = "init"
    /\ key = ""
    /\ line = <<>>
    /\ pcB = [b \in Bg |-> "idle"]
    /\ arg = [b \in Bg |-> NoArg]
    /\ stop_event = FALSE
    /\ sent = <<>>
    /\ shutdowns = 0
    /\ nkeys = 0
    /\ nwrites = 0
    /\ nenter = 0
    /\ stopkeys = 0

\* The state of Console, the editor and the producers after construction.
InitConsole ==
    /\ term = TermInit
    /\ con = ConInit
    /\ InitRest

\* termios local-mode flags of stdin.  Console.original_stdin_mode is the set
\* of the saved modes: none (None) or one.
LFlags == {"ECHO", "ICANON", "ISIG"}
NoMode == {}
MainVars == <<tty, original_stdin_mode, main>>

\* Fault model: a patch that saves the current mode on every call.
try_patch_Unguarded(t, original) ==
    IF ~t.stdout_isatty \/ ~t.stdin_isatty THEN [tty |-> t, original |-> original]
    ELSE [tty |-> [t EXCEPT !.mode = t.mode \ {"ECHO", "ICANON"}], original |-> {t.mode}]

\* Console.try_patch_stdin_stdout_behavior (os.name != 'nt'): nothing when
\* stdout is no tty or a mode is already saved; tcgetattr raises when stdin is
\* no tty and the exception is swallowed; else the mode is saved and ECHO and
\* ICANON are cleared.  The result is [tty, original].
try_patch_stdin_stdout_behavior(t, original) ==
    IF ~t.stdout_isatty THEN [tty |-> t, original |-> original]
    ELSE IF original # NoMode THEN [tty |-> t, original |-> original]
    ELSE IF ~t.stdin_isatty THEN [tty |-> t, original |-> original]
    ELSE [tty |-> [t EXCEPT !.mode = t.mode \ {"ECHO", "ICANON"}], original |-> {t.mode}]

\* Console.try_restore_stdin_stdout_behavior: tcsetattr of the saved mode when
\* there is one (an exception is swallowed), then the saved mode is forgotten.
try_restore_stdin_stdout_behavior(t, original) ==
    [tty |-> IF original # NoMode /\ t.stdin_isatty THEN [t EXCEPT !.mode = CHOOSE m \in original : TRUE] ELSE t,
     original |-> NoMode]

\* The threads are started by the main thread inside main_bot, on a terminal
\* it has patched.
Init ==
    /\ InitConsole
    /\ tty = [stdout_isatty |-> TRUE, stdin_isatty |-> TRUE, mode |-> {"ISIG"}]
    /\ original_stdin_mode = {LFlags}
    /\ main = [pc |-> "main_bot", path |-> "", calls |-> 0, mode0 |-> LFlags]

\* The same start with colours switched off by the configuration:
\* Console.enable_colors = cfg.enable_console_colors.
InitPlain ==
    /\ con = [ConInit EXCEPT !.enable_colors = FALSE]
    /\ term = TermInit
    /\ InitRest
    /\ tty = [stdout_isatty |-> TRUE, stdin_isatty |-> TRUE, mode |-> {"ISIG"}]
    /\ original_stdin_mode = {LFlags}
    /\ main = [pc |-> "main_bot", path |-> "", calls |-> 0, mode0 |-> LFlags]

\* The cursor anywhere below the first row, its offset counted from the
\* first cell of the second row: the state move_cursor_left_relative and
\* move_cursor_right_relative are called in with cursor_offset = k.
InitCursor ==
    /\ \E k \in 0..(MaxCols * (MaxRows - 1) - 1) :
           term = [TermInit EXCEPT !.o = 2, !.r = 2 + k \div MaxCols, !.c = 1 + (k % MaxCols)]
    /\ con = ConInit
    /\ InitRest
    /\ tty = [stdout_isatty |-> TRUE, stdin_isatty |-> TRUE, mode |-> {"ISIG"}]
    /\ original_stdin_mode = {LFlags}
    /\ main = [pc |-> "main_bot", path |-> "", calls |-> 0, mode0 |-> LFlags]

\* The main thread at the top of __main__, on any device.
InitMode ==
    /\ InitConsole
    /\ tty \in [stdout_isatty : BOOLEAN, stdin_isatty : BOOLEAN, mode : SUBSET LFlags]
    /\ original_stdin_mode = NoMode
    /\ main = [pc |-> "try", path |-> "", calls |-> 0, mode0 |-> tty.mode]

BgVars == <<pcB, arg, nwrites>>
EdCtl == <<key, line, sent, shutdowns, nkeys, nenter, stopkeys>>

\* ------------------------------------------------------------ editor thread
WhoPrompt == <<Editor, "prompt", nenter>>
WhoBatch == <<Editor, "batch", nkeys>>
WhoNotice == <<Editor, "notice", nkeys>>

\* main_loop up to its while loop: the callbacks are registered.
EStart ==
    /\ pcE = "init"
    /\ pcE' = "loop"
    /\ con' = [con EXCEPT !.registered = TRUE]
    /\ ed' = [ed EXCEPT !.stopped = FALSE]
    /\ UNCHANGED <<term, lock, lw, broken, out, wlog, stop_event>>
    /\ UNCHANGED EdCtl
    /\ UNCHANGED BgVars
    /\ UNCHANGED MainVars

\* main_loop: `while not self.stop_event.is_set()` and get_console_prompt()
ELoop ==
    /\ pcE = "loop"
    /\ IF stop_event
       THEN pcE' = "done" /\ UNCHANGED ed
       ELSE pcE' = "prompt" /\ ed' = get_console_prompt_effect(Cur).ed
    /\ UNCHANGED <<term, con, lock, lw, broken, out, wlog, stop_event>>
    /\ UNCHANGED EdCtl
    /\ UNCHANGED BgVars
    /\ UNCHANGED MainVars

\* msg of main_loop: reset all modes, '\r', erase line, the prompt
PromptMsg(s) == <<Tok("SGR0"), Tok("\r"), Tok("EL2")>> \o s.ed.console_prompt

\* main_loop after Console._write(msg): clear the input, flush
AfterPrompt(s) ==
    Flush(SetIdx(SetInput(s, <<>>), 0), "stdout")

\* The editor thread's step ends in state s: it goes on at pc, or an exception
\* has left main_loop.
EditorGoes(s, pc) ==
    /\ Commit(s)
    /\ pcE' = IF s.exc # "" THEN "crashed" ELSE pc

\* The write of the query raised: the exception leaves the with blocks of
\* get_cursor_pos and of __console_write, each releases the lock.
dsr_unwind(s, th) == IF s.exc # "" THEN Release(Release(s, th), th) ELSE s

\* Console._write(msg) after its first lines: the query of the cursor, or the
\* rest of the call and of the loop's preamble.
prompt_write(s, who) ==
    IF NeedsCursorQuery(s, "stdout")
    THEN dsr_unwind(get_cursor_pos_query(s, who), ThreadOf(who))
    ELSE AfterPrompt(console_write_tail(s, who, "stdout", PromptMsg(s), 0))

\* main_loop: Console._write(msg), up to the blocking read of get_cursor_pos
\* when the call queries the cursor, else to the end of the loop's preamble.
EPrompt ==
    /\ pcE = "prompt"
    /\ CanAcquire(lock, Editor)
    /\ EditorGoes(prompt_write(console_write_head([Cur EXCEPT !.out = <<>>],
                                                  WhoPrompt, "stdout"), WhoPrompt),
                  IF NeedsCursorQuery(Cur, "stdout") THEN "dsr" ELSE "rl")
    /\ UNCHANGED stop_event
    /\ UNCHANGED EdCtl
    /\ UNCHANGED BgVars
    /\ UNCHANGED MainVars

\* The blocking sys.__stdin__.read of __get_cursor_pos returns: the terminal's
\* reply (replied) or something else; then the rest of Console._write.
EDsrReply(replied) ==
    /\ pcE = "dsr"
    /\ EditorGoes(AfterPrompt(console_write_tail(
                      get_cursor_pos_reply(Cur, WhoPrompt, replied), WhoPrompt, "stdout",
                      PromptMsg(Cur), get_cursor_pos_col(Cur, replied))),
                  "rl")
    /\ UNCHANGED stop_event
    /\ UNCHANGED EdCtl
    /\ UNCHANGED BgVars
    /\ UNCHANGED MainVars

\* Fault model: a _readline that reads on without testing stop_event.
ERl_Unchecked ==
    /\ pcE = "rl"
    /\ pcE' = "readkey"
    /\ UNCHANGED <<term, con, ed, lock, lw, broken, out, wlog, stop_event>>
    /\ UNCHANGED <<key, line, sent, shutdowns, nkeys, nenter, stopkeys>>
    /\ UNCHANGED <<pcB, arg, nwrites>>
    /\ UNCHANGED MainVars

\* _readline: `while not self.stop_event.is_set()`; main_loop: `if not line: continue`
ERl ==
    /\ pcE = "rl"
    /\ IF stop_event
       THEN pcE' = "loop" /\ line' = <<>>
       ELSE pcE' = "readkey" /\ UNCHANGED line
    /\ UNCHANGED <<term, con, ed, lock, lw, broken, out, wlog, stop_event>>
    /\ UNCHANGED <<key, sent, shutdowns, nkeys, nenter, stopkeys>>
    /\ UNCHANGED BgVars
    /\ UNCHANGED MainVars

Clips == {Str(<<"a">>), Str(<<" ", "a">>), [i \in 1..MaxClip |-> Tok("a")]}

\* The input device has a keystroke for the editor: within the budget of the
\* behaviour, or (past it) after stop_event was set.
KeyBudget(maxkeys) ==
    \/ nkeys < maxkeys
    \/ stop_event /\ stopkeys < MaxStopKeys

\* The keystrokes the bounds admit in the current state.
KeyAllowed(ch) ==
    /\ ch \in Chars => Len(ed.current_input) < MaxLen
    /\ ch = "CTRL_V" => Len(ed.current_input) < MaxLen
    /\ ch \in EnterKeys => nenter < MaxSubmits

\* readkey() returns ch.
EKey(ch, maxkeys) ==
    /\ pcE = "readkey"
    /\ KeyBudget(maxkeys)
    /\ KeyAllowed(ch)
    /\ key' = ch
    /\ nkeys' = nkeys + 1
    /\ nenter' = IF ch \in EnterKeys THEN nenter + 1 ELSE nenter
    /\ stopkeys' = IF stop_event THEN stopkeys + 1 ELSE stopkeys
    /\ pcE' = "gotkey"
    /\ UNCHANGED <<term, con, ed, lock, lw, broken, out, wlog, stop_event>>
    /\ UNCHANGED <<line, sent, shutdowns>>
    /\ UNCHANGED BgVars
    /\ UNCHANGED MainVars

\* the notice of the KeyboardInterrupt handler
NoticeMsg == <<Tok("SGR0"), Tok("SGR"), Tok("^"), Tok("\n"), Tok("e"), Tok("SGR0"), Tok("\n")>>

\* readkey() raises KeyboardInterrupt: the handler sets _stopped and writes
\* the notice with sys.stderr.write.
EInterrupt(maxkeys) ==
    /\ pcE = "readkey"
    /\ KeyBudget(maxkeys)
    /\ nkeys' = nkeys + 1
    /\ EditorGoes(Flush(Write([Cur EXCEPT !.ed.stopped = TRUE],
                              <<Editor, "notice", nkeys + 1>>, "stderr",
                              Console_format_text(Cur, NoticeMsg)), "stderr"),
                  "intr")
    /\ UNCHANGED stop_event
    /\ UNCHANGED <<key, line, sent, shutdowns, nenter, stopkeys>>
    /\ UNCHANGED BgVars
    /\ UNCHANGED MainVars

\* Fault model: a handler that calls bot.shutdown() and, instead of raising the
\* exception again, lets _readline return to main_loop.
EShutdown_Swallowed ==
    /\ pcE = "intr"
    /\ shutdowns' = shutdowns + 1
    /\ pcE' = "loop"
    /\ line' = <<>>
    /\ UNCHANGED <<term, con, ed, lock, lw, broken, out, wlog, stop_event>>
    /\ UNCHANGED <<key, sent, nkeys, nenter, stopkeys>>
    /\ UNCHANGED BgVars
    /\ UNCHANGED MainVars

\* the handler's bot.shutdown(), flushes and `raise`
EShutdown ==
    /\ pcE = "intr"
    /\ shutdowns' = shutdowns + 1
    /\ pcE' = "raised"
    /\ UNCHANGED <<term, con, ed, lock, lw, broken, out, wlog, stop_event>>
    /\ UNCHANGED <<key, line, sent, nkeys, nenter, stopkeys>>
    /\ UNCHANGED BgVars
    /\ UNCHANGED MainVars

\* `with Console.LockedWriter(source='c') as w:`, __enter__.  When __enter__
\* raises, __exit__ is not called.
EBatchEnter ==
    /\ pcE = "gotkey"
    /\ CanAcquire(lock, Editor)
    /\ EditorGoes(LockedWriter_enter([Cur EXCEPT !.out = <<>>], WhoBatch, "stdout", "c"),
                  "batch")
    /\ UNCHANGED stop_event
    /\ UNCHANGED EdCtl
    /\ UNCHANGED BgVars
    /\ UNCHANGED MainVars

\* The with block ends in state s: Enter returns the stripped input to
\* main_loop, any other key goes round _readline's loop.
BatchEnds(s) ==
    /\ EditorGoes(s, IF key \in EnterKeys THEN "submitted" ELSE "rl")
    /\ line' = IF key \in EnterKeys /\ s.exc = ""
               THEN StripLine(ed.current_input) ELSE line

\* The body of the with block for the key read, then __exit__.
EBatch(clips, replies) ==
    /\ pcE = "batch"
    /\ \E clip \in (IF key = "CTRL_V"
                      THEN {c \in clips : Len(ed.current_input) + Len(c) <= MaxLine}
                      ELSE {<<>>}),
          replied \in (IF key \in {"UP", "DOWN", "INSERT"} /\ NeedsCursorQuery(Cur, "stdout")
                       THEN replies ELSE {TRUE}) :
          BatchEnds(LockedWriter_exit(ProcessKey(Cur, WhoBatch, key, clip, replied),
                                      WhoBatch))
    /\ UNCHANGED stop_event
    /\ UNCHANGED <<key, sent, shutdowns, nkeys, nenter, stopkeys>>
    /\ UNCHANGED BgVars
    /\ UNCHANGED MainVars

\* Fault model: the line compared as typed.
Lower_AsTyped(text) == text

\* str.lower()
Lower(text) ==
    [n \in 1..Len(text) |->
        Tok(CASE text[n].k = "Q" -> "q" [] text[n].k = "U" -> "u"
              [] text[n].k = "I" -> "i" [] text[n].k = "T" -> "t"
              [] OTHER -> text[n].k)]

\* ('\\q', '!q', '\\quit', '!quit')
QuitLines == {Str(<<"\\", "q">>), Str(<<"!", "q">>),
              Str(<<"\\", "q", "u", "i", "t">>), Str(<<"!", "q", "u", "i", "t">>)}

\* What the clipboard holds in the runs that quit: quit commands in either
\* case and a text that only begins like one.
QuitClips == {Str(<<"\\", "q">>), Str(<<"!", "Q">>), Str(<<"!", "q", "u", "i", "t">>),
              Str(<<"\\", "Q", "u", "I", "T">>), Str(<<"!", "q", "u">>)}

\* main_loop with the line _readline returned.
ESubmitted ==
    /\ pcE = "submitted"
    /\ IF line = <<>>
       THEN pcE' = "loop" /\ UNCHANGED <<ed, sent, shutdowns>>
       ELSE IF Lower(line) \in QuitLines
       THEN /\ pcE' = "done"
            /\ ed' = [ed EXCEPT !.stopped = TRUE]
            /\ shutdowns' = shutdowns + 1
            /\ UNCHANGED sent
       ELSE /\ pcE' = "wait"
            /\ sent' = Append(sent, line)
            /\ UNCHANGED <<ed, shutdowns>>
    /\ UNCHANGED <<term, con, lock, lw, broken, out, wlog, stop_event>>
    /\ UNCHANGED <<key, line, nkeys, nenter, stopkeys>>
    /\ UNCHANGED BgVars
    /\ UNCHANGED MainVars

\* self.bot.response_event.wait(self.cfg.response_timeout) returns.
EWait ==
    /\ pcE = "wait"
    /\ pcE' = "loop"
    /\ UNCHANGED <<term, con, ed, lock, lw, broken, out, wlog, stop_event>>
    /\ UNCHANGED EdCtl
    /\ UNCHANGED BgVars
    /\ UNCHANGED MainVars

\* ------------------------------------------------------------ producers
\* The texts producers write: without and with the newline, and with a blank
\* after the newline.
Texts == {Str(<<"e">>), Str(<<"e", "\n">>)}
BlankEndedTexts == {Str(<<"e", "\n", " ">>)}

WhoBg(b) == <<b, "writeln", arg[b].op>>

\* a producer calls Console.writeln (stdout) or Console.writeln_stderr
BCall(b, tn, text) ==
    /\ pcB[b] = "idle"
    /\ nwrites < MaxWrites
    /\ nwrites' = nwrites + 1
    /\ pcB' = [pcB EXCEPT ![b] = "call"]
    /\ arg' = [arg EXCEPT ![b] = [target |-> tn, text |-> text, exc |-> "",
                                  op |-> nwrites + 1]]
    /\ UNCHANGED <<term, con, ed, lock, lw, broken, out, wlog, pcE, stop_event>>
    /\ UNCHANGED EdCtl
    /\ UNCHANGED MainVars

\* Producer b's step ends in state s and b goes on at pc; the exception
\* propagating in b, if any, is kept with its call.
BgGoes(b, s, pc) ==
    /\ Commit(s)
    /\ arg' = [arg EXCEPT ![b].exc = s.exc]
    /\ pcB' = [pcB EXCEPT ![b] = pc]

\* __enter__ ends in state s: when it raised, the with block is not entered
\* and __exit__ is not called, the exception reaches the caller of writeln.
BgEntered(b, s) == BgGoes(b, s, IF s.exc # "" THEN "idle" ELSE "in")

\* Console.__writeln: `with Console.LockedWriter(target_name, source)`, __enter__
BEnter(b) ==
    /\ pcB[b] = "call"
    /\ CanAcquire(lock, b)
    /\ BgEntered(b, LockedWriter_enter([Cur EXCEPT !.out = <<>>], WhoBg(b),
                                       arg[b].target, ""))
    /\ UNCHANGED <<pcE, stop_event, nwrites>>
    /\ UNCHANGED EdCtl
    /\ UNCHANGED MainVars

\* writer.writeln(line)
BWriteln(b) ==
    /\ pcB[b] = "in"
    /\ BgGoes(b, LockedWriter_writeln(Cur, WhoBg(b), arg[b].text), "exit")
    /\ UNCHANGED <<pcE, stop_event, nwrites>>
    /\ UNCHANGED EdCtl
    /\ UNCHANGED MainVars

\* __exit__; the call returns, or raises arg[b].exc to the producer
BExit(b) ==
    /\ pcB[b] = "exit"
    /\ BgGoes(b, LockedWriter_exit([Cur EXCEPT !.exc = arg[b].exc], WhoBg(b)), "idle")
    /\ UNCHANGED <<pcE, stop_event, nwrites>>
    /\ UNCHANGED EdCtl
    /\ UNCHANGED MainVars

\* ------------------------------------------------------------ environment
\* main_bot's `finally: stop_event.set()`
SetStop ==
    /\ ~stop_event
    /\ stop_event' = TRUE
    /\ UNCHANGED <<term, con, ed, lock, lw, broken, out, wlog, pcE>>
    /\ UNCHANGED EdCtl
    /\ UNCHANGED BgVars
    /\ UNCHANGED MainVars

\* a stream is closed or its pipe breaks: its write() and flush() raise
BreakStream(tn) ==
    /\ tn \notin broken
    /\ broken' = broken \cup {tn}
    /\ UNCHANGED <<term, con, ed, lock, lw, out, wlog, pcE, stop_event>>
    /\ UNCHANGED EdCtl
    /\ UNCHANGED BgVars
    /\ UNCHANGED MainVars

\* --------------------------------------------------------------- main thread
MainThread == NumBg + 1
ConsoleVars == <<term, con, ed, lock, lw, broken, out, wlog, pcE, stop_event>>

\* __main__: Console.try_patch_stdin_stdout_behavior(), then main_bot()
MPatch ==
    /\ main.pc = "try"
    /\ CanAcquire(lock, MainThread)
    /\ tty' = try_patch_stdin_stdout_behavior(tty, original_stdin_mode).tty
    /\ original_stdin_mode' = try_patch_stdin_stdout_behavior(tty, original_stdin_mode).original
    /\ main' = [main EXCEPT !.pc = "main_bot"]
    /\ UNCHANGED <<ConsoleVars, EdCtl, BgVars>>

\* a further call of Console.try_patch_stdin_stdout_behavior()
MCallPatch ==
    /\ main.pc = "main_bot"
    /\ main.calls < MaxModeCalls
    /\ CanAcquire(lock, MainThread)
    /\ tty' = try_patch_stdin_stdout_behavior(tty, original_stdin_mode).tty
    /\ original_stdin_mode' = try_patch_stdin_stdout_behavior(tty, original_stdin_mode).original
    /\ main' = [main EXCEPT !.calls = @ + 1]
    /\ UNCHANGED <<ConsoleVars, EdCtl, BgVars>>

\* a further call of Console.try_restore_stdin_stdout_behavior()
MCallRestore ==
    /\ main.pc = "main_bot"
    /\ main.calls < MaxModeCalls
    /\ CanAcquire(lock, MainThread)
    /\ tty' = try_restore_stdin_stdout_behavior(tty, original_stdin_mode).tty
    /\ original_stdin_mode' = try_restore_stdin_stdout_behavior(tty, original_stdin_mode).original
    /\ main' = [main EXCEPT !.calls = @ + 1]
    /\ UNCHANGED <<ConsoleVars, EdCtl, BgVars>>

\* main_bot() ends: the console thread was joined (normal return, or after a
\* quit command), an exception was raised and caught by `except Exception`,
\* or KeyboardInterrupt was raised in the main thread and passes the except
\* clauses; each way control reaches the `finally` of __main__.
ExitPaths == {"return", "quit", "exception", "interrupt"}
MLeave(path) ==
    /\ main.pc = "main_bot"
    /\ main' = [main EXCEPT !.pc = "finally", !.path = path]
    /\ UNCHANGED <<tty, original_stdin_mode>>
    /\ UNCHANGED <<ConsoleVars, EdCtl, BgVars>>

\* `finally: Console.try_restore_stdin_stdout_behavior()`, then sys.exit(0),
\* or the KeyboardInterrupt ends the process.
MFinally ==
    /\ main.pc = "finally"
    /\ CanAcquire(lock, MainThread)
    /\ tty' = try_restore_stdin_stdout_behavior(tty, original_stdin_mode).tty
    /\ original_stdin_mode' = try_restore_stdin_stdout_behavior(tty, original_stdin_mode).original
    /\ main' = [main EXCEPT !.pc = IF main.path = "interrupt" THEN "raised" ELSE "exit"]
    /\ UNCHANGED <<ConsoleVars, EdCtl, BgVars>>

\* ------------------------------------------------------------ specifications
AllKeys == Chars \cup (SpecialKeys \ {"CR", "LF", "CTRL_R", "ESC", "F1"})

EditorSteps(keys, replies, maxkeys) ==
    \/ EStart
    \/ ELoop
    \/ EPrompt
    \/ \E r \in replies : EDsrReply(r)
    \/ ERl
    \/ \E ch \in keys : EKey(ch, maxkeys)
    \/ EBatchEnter
    \/ EBatch(Clips, replies)
    \/ ESubmitted
    \/ EWait

ProducerSteps(targets, texts) ==
    \/ \E b \in Bg, tn \in targets, text \in texts : BCall(b, tn, text)
    \/ \E b \in Bg : BEnter(b)
    \/ \E b \in Bg : BWriteln(b)
    \/ \E b \in Bg : BExit(b)

\* The editor alone: keystrokes against the terminal.
NextKeys == EditorSteps(AllKeys, {TRUE, FALSE}, MaxKeys)
SpecKeys == Init /\ [][NextKeys]_vars

\* The editor and the producers; the terminal answers every cursor query.
EditKeys == {"a", "LEFT", "ENTER"}
NextEdit ==
    \/ EditorSteps(EditKeys, {TRUE}, MaxConcKeys)
    \/ ProducerSteps({"stdout", "stderr"}, Texts \cup BlankEndedTexts)
SpecEdit == Init /\ [][NextEdit]_vars

\* The whole program: editor, producers, interrupt (Ctrl+C) and main_bot's
\* cancellation.
AllStepKeys == {"a", "ENTER"}
NextAll ==
    \/ EditorSteps(AllStepKeys, {TRUE}, MaxConcKeys)
    \/ EInterrupt(MaxConcKeys)
    \/ EShutdown
    \/ ProducerSteps({"stdout", "stderr"}, Texts)
    \/ SetStop
Spec == Init /\ [][NextAll]_vars

\* The editor and the producers on streams that may break.
NextFault ==
    \/ EditorSteps(AllStepKeys, {TRUE}, MaxConcKeys)
    \/ ProducerSteps({"stdout", "stderr"}, Texts)
    \/ \E tn \in {"stdout", "stderr"} : BreakStream(tn)
SpecFault == Init /\ [][NextFault]_vars

\* The editor, the producers and main_bot's cancellation, under fair
\* scheduling: every thread that can take a step eventually takes it, the
\* input device delivers a keystroke (and the terminal its reply to a cursor
\* query) to a blocked read, response_event.wait() times out.
NextLive ==
    \/ EditorSteps(AllStepKeys, {TRUE}, MaxConcKeys)
    \/ ProducerSteps({"stdout"}, Texts)
    \/ SetStop
EditorPcs == {"init", "loop", "prompt", "dsr", "rl", "readkey", "gotkey", "batch",
              "submitted", "wait", "done", "intr", "raised", "crashed"}
BgPcs == {"idle", "call", "in", "exit"}

\* The editor thread, at pc, takes its step; producer b, at pc, takes its step.
EditorLeaves(pc) == pcE = pc /\ pcE' \in EditorPcs \ {pc}
ProducerLeaves(b, pc) == pcB[b] = pc /\ pcB' \in [Bg -> BgPcs] /\ pcB'[b] # pc

\* The steps that write to the terminal (EPrompt, EDsrReply, EBatchEnter,
\* EBatch, BEnter, BWriteln, BExit) are enabled exactly at their position,
\* those that acquire _LOCK when the lock can be acquired: their fairness is
\* stated on the thread's position.
FairLive ==
    /\ WF_vars(EStart) /\ WF_vars(ELoop) /\ WF_vars(ERl)
    /\ WF_vars(\E ch \in AllStepKeys : EKey(ch, MaxConcKeys))
    /\ WF_vars(ESubmitted) /\ WF_vars(EWait)
    /\ WF_pcE(CanAcquire(lock, Editor) /\ EditorLeaves("prompt"))
    /\ WF_pcE(EditorLeaves("dsr"))
    /\ WF_pcE(CanAcquire(lock, Editor) /\ EditorLeaves("gotkey"))
    /\ WF_pcE(EditorLeaves("batch"))
    /\ \A b \in Bg : /\ WF_pcB(CanAcquire(lock, b) /\ ProducerLeaves(b, "call"))
                     /\ WF_pcB(ProducerLeaves(b, "in"))
                     /\ WF_pcB(ProducerLeaves(b, "exit"))
SpecLive == Init /\ [][NextLive]_vars /\ FairLive

\* Pasting while the producers write.
PasteKeys == {"CTRL_V", "HOME", "INSERT", "ENTER"}
NextPaste ==
    \/ EditorSteps(PasteKeys, {TRUE}, MaxPasteKeys)
    \/ ProducerSteps({"stdout"}, {Str(<<"e">>)})
SpecPaste == Init /\ [][NextPaste]_vars

\* Colours off: typing, history and Enter against producers whose text
\* carries a colour.
PlainKeys == {"a", "UP", "ENTER"}
NextPlain ==
    \/ EditorSteps(PlainKeys, {TRUE}, MaxConcKeys)
    \/ ProducerSteps({"stdout"}, {<<Tok("SGR"), Tok("e"), Tok("SGR0")>>})
SpecPlain == InitPlain /\ [][NextPlain]_vars

\* The cursor moves on their own.  CursorOffset is the cursor_offset the
\* caller passes: the cursor's distance from the first cell of the text.
CursorOffset(t) == (t.r - t.o) * MaxCols + (t.c - 1)
WhoMove == <<Editor, "move", nkeys>>

\* Console.move_cursor_left_relative(n, cursor_offset)
CallLeft(n) ==
    /\ pcE = "init"
    /\ nkeys < MaxMoves
    /\ nkeys' = nkeys + 1
    /\ EditorGoes(move_cursor_left_relative([Cur EXCEPT !.out = <<>>], WhoMove, n,
                                            CursorOffset(term), "stdout"), "init")
    /\ UNCHANGED <<key, line, stop_event, sent, shutdowns, nenter, stopkeys>>
    /\ UNCHANGED BgVars
    /\ UNCHANGED MainVars

\* Console.move_cursor_right_relative(n, cursor_offset), the target on screen
CallRight(n) ==
    /\ pcE = "init"
    /\ nkeys < MaxMoves
    /\ CursorOffset(term) + n < MaxCols * (MaxRows - 1)
    /\ nkeys' = nkeys + 1
    /\ EditorGoes(move_cursor_right_relative([Cur EXCEPT !.out = <<>>], WhoMove, n,
                                             CursorOffset(term), "stdout"), "init")
    /\ UNCHANGED <<key, line, stop_event, sent, shutdowns, nenter, stopkeys>>
    /\ UNCHANGED BgVars
    /\ UNCHANGED MainVars

NextMove ==
    \/ \E n \in 0..(MaxCols * MaxRows) : CallLeft(n)
    \/ \E n \in 0..(MaxCols * MaxRows) : CallRight(n)
SpecMove == InitCursor /\ [][NextMove]_vars

\* Console._write on its own, against producers: texts without a newline,
\* with one at the end, with one inside, with an erase sequence, coloured.
WriteTexts == {Str(<<"e">>), Str(<<"e", "\n">>), Str(<<"e", "\n", "a">>),
               <<Tok("EL2"), Tok("e")>>, <<Tok("SGR"), Tok("a"), Tok("SGR0")>>}
WhoWrite == <<Editor, "write", nkeys>>

\* Console._write(text)
CallWrite(text, replied) ==
    /\ pcE = "init"
    /\ nkeys < MaxMoves
    /\ CanAcquire(lock, Editor)
    /\ nkeys' = nkeys + 1
    /\ EditorGoes(Console_write([Cur EXCEPT !.out = <<>>], WhoWrite, "stdout", text,
                                replied), "init")
    /\ UNCHANGED <<key, line, stop_event, sent, shutdowns, nenter, stopkeys>>
    /\ UNCHANGED BgVars
    /\ UNCHANGED MainVars

NextWrite ==
    \/ \E text \in WriteTexts, replied \in BOOLEAN : CallWrite(text, replied)
    \/ ProducerSteps({"stdout"}, {Str(<<"e">>)})
SpecWrite == Init /\ [][NextWrite]_vars

\* Console._write called directly while the streams of the cursor query break.
NextQuery ==
    \/ \E text \in {Str(<<"e">>), Str(<<"e", "\n">>)}, replied \in BOOLEAN :
           CallWrite(text, replied)
    \/ ProducerSteps({"stdout"}, {Str(<<"e">>)})
    \/ \E tn \in {"stdout", "stdin"} : BreakStream(tn)
SpecQuery == Init /\ [][NextQuery]_vars

\* The keys without a function, a character and Enter, against producers on
\* both streams.
IdleKeys == NoOpKeys \cup {"a", "ENTER"}
NextIdle ==
    \/ EditorSteps(IdleKeys, {TRUE}, MaxConcKeys)
    \/ ProducerSteps({"stdout", "stderr"}, {Str(<<"e">>)})
SpecIdle == Init /\ [][NextIdle]_vars

\* The editor alone, quit commands on the clipboard.
QuitKeys == {"CTRL_V", "ENTER", " "}
NextQuit ==
    \/ EStart
    \/ ELoop
    \/ EPrompt
    \/ EDsrReply(TRUE)
    \/ ERl
    \/ \E ch \in QuitKeys : EKey(ch, MaxPasteKeys)
    \/ EBatchEnter
    \/ EBatch(QuitClips, {TRUE})
    \/ ESubmitted
    \/ EWait
SpecQuit == Init /\ [][NextQuit]_vars

\* The entry point: the terminal mode from the start of __main__ to the exit
\* of the process, with any further calls of patch and restore in between.
NextMode ==
    \/ MPatch
    \/ MCallPatch
    \/ MCallRestore
    \/ \E path \in ExitPaths : MLeave(path)
    \/ MFinally
SpecMode == InitMode /\ [][NextMode]_vars

\* ------------------------------------------------------------ what the screen shows
Last(seq) == seq[Len(seq)]

\* The cursor's offset from the first cell of the prompt drawn last, counted
\* in cells along the rows (row-major), and the offset the editor's fields
\* say it has.
PhysicalOffset == (term.r - term.o) * MaxCols + (term.c - 1)
LogicalOffset == ed.console_prompt_len + ed.current_input_idx

\* State Editing: the editor has drawn its prompt and waits for a keystroke.
AtPrompt == pcE \in {"rl", "readkey"} /\ ~ed.stopped
Editing == AtPrompt /\ term.o > 0

\* The glyphs of the prompt followed by the input buffer.
Expected ==
    <<">", IF ed.insert_mode THEN "*" ELSE " ">>
    \o [i \in 1..Len(ed.current_input) |-> ed.current_input[i].k]

\* The cell k cells after the first cell of the prompt, along the rows.
CellAt(k) == term.rows[term.o + k \div MaxCols][(k % MaxCols) + 1]

\* The prompt and the input are on screen, and nothing follows them.
PromptPinned ==
    /\ term.o > 0
    /\ term.o + Len(Expected) \div MaxCols <= MaxRows
    /\ \A k \in 0..(Len(Expected) - 1) : CellAt(k) = Expected[k + 1]
    /\ \A r \in 1..MaxRows, c \in 1..MaxCols :
           (r - term.o) * MaxCols + (c - 1) >= Len(Expected) => term.rows[r][c] = " "

\* The write that reached the terminal last belongs to a producer's call of
\* writeln / writeln_stderr, and that call has returned.
BgReturned ==
    /\ wlog # <<>>
    /\ Last(wlog).w[2] = "writeln"
    /\ pcB[Last(wlog).w[1]] = "idle"

\* ------------------------------------------------------------ claims
\* C1: the output of one writeln call or keystroke batch is one contiguous
\* segment of the stream: between two writes of one call no other thread
\* writes.
C1_CallsAreContiguous ==
    \A i, k \in 1..Len(wlog) :
        (i < k /\ wlog[i].w = wlog[k].w /\ wlog[i].w[2] \in {"writeln", "batch"})
        => \A j \in i..k : wlog[j].w[1] = wlog[i].w[1]

\* C1, its case: a producer stands between its erase and its redraw, holding
\* the lock after a write, while the editor has a keystroke to echo and the
\* other producers wait to enter.
C1_Witness ==
    /\ pcE = "gotkey"
    /\ \E b \in Bg : /\ pcB[b] = "exit"
                     /\ Last(wlog).w[1] = b
                     /\ \A o \in Bg \ {b} : pcB[o] = "call"

\* C2: every write to stdout or stderr is made while the writing thread holds
\* Console._LOCK.
C2_WritesHoldLock == \A i \in 1..Len(wlog) : wlog[i].held

\* C3: after each keystroke the terminal's cursor is at row (P + cursor_index)
\* div W, column (P + cursor_index) mod W from the first cell of the prompt.
C3_CursorFollowsIndex ==
    (Editing /\ nkeys > 0) =>
        /\ term.r - term.o = LogicalOffset \div MaxCols
        /\ term.c - 1 = LogicalOffset % MaxCols

\* C4: when the editor is in state Editing and a producer's writeln or
\* writeln_stderr has returned, the last rows of the terminal show the prompt
\* followed by the input buffer.
C4_PromptStaysPinned == (AtPrompt /\ BgReturned) => PromptPinned

\* The tokens that erase or move and show nothing.
EraseToks == {"\r", "EL2", "CUU", "CUD", "CUF", "CUB", "SGR0"}

\* text with the newline writeln owes it
Terminated(text) == IF EndsWith(text, "\n") THEN text ELSE text \o <<Tok("\n")>>

\* stream is an erase (of at least one line), then text, then redraw
InOrder(stream, text, redraw) ==
    \E n \in 1..Len(stream) :
        /\ \A i \in 1..n : stream[i].k \in EraseToks
        /\ \E i \in 1..n : stream[i].k = "EL2"
        /\ SubSeq(stream, n + 1, Len(stream)) = Terminated(text) \o redraw

\* The editor displays its prompt and a non-empty input, and wrote last.
ShowsInput ==
    con.registered /\ ~ed.stopped /\ con.last_source = "c" /\ ed.current_input # <<>>

\* C5: when the editor displays prompt + non-empty input and a producer calls
\* Console.writeln(text), the stream receives the erase of the prompt and the
\* input, then text ended by a newline, then the prompt and the input as the
\* registered callback reports them.
C5_EraseTextRedraw ==
    [][\A b \in Bg :
           (pcB[b] = "exit" /\ pcB'[b] = "idle" /\ arg[b].target = "stdout" /\ ShowsInput)
           => InOrder(out', arg[b].text, Console_get_console_stdout(Cur))]_vars

\* C6: after a producer's Console.writeln (to stdout, of a line without
\* blanks at its end) has returned during editing, the cursor is at offset
\* prompt width + cursor_index of the prompt drawn again.
C6_CursorRestored ==
    (/\ Editing
     /\ BgReturned
     /\ arg[Last(wlog).w[1]].target = "stdout"
     /\ arg[Last(wlog).w[1]].text \in Texts)
    => PhysicalOffset = LogicalOffset

\* C7: no thread leaves an operation still holding Console._LOCK: the lock is
\* held only by a thread that is inside a with block (or inside
\* get_cursor_pos), whatever raised.
C7_LockReleased ==
    /\ lock.owner = Editor => pcE \in {"batch", "dsr"}
    /\ \A b \in Bg : lock.owner = b => pcB[b] \in {"in", "exit"}
    /\ lock.owner = NoOwner <=> lock.count = 0

\* C8: the editor thread never holds Console._LOCK while it is blocked
\* waiting for input (a keystroke, the reply to a cursor query) or for the
\* collaborator's response.
C8_NoLockWhileBlocked ==
    pcE \in {"readkey", "dsr", "wait"} => lock.owner # Editor

\* C9: once stop_event is set the editor forwards no line to the collaborator,
\* and a keystroke its read delivers after that is not applied to its state.
C9_NothingAfterStop ==
    [][/\ stop_event => sent' = sent
       /\ (stop_event /\ stopkeys > 0) =>
              /\ ed'.current_input = ed.current_input
              /\ ed'.current_input_idx = ed.current_input_idx
              /\ ed'.history = ed.history
              /\ ed'.insert_mode = ed.insert_mode]_vars

\* C10: once stop_event is set the editor thread eventually leaves main_loop,
\* having read at most one keystroke after the flag was set; once it has left
\* it reads and applies no further keystroke.
C10_StopsAfterOneKey ==
    /\ stop_event ~> pcE = "done"
    /\ [](stopkeys <= 1)
    /\ [][pcE = "done" => /\ pcE' = "done"
                          /\ nkeys' = nkeys
                          /\ ed'.current_input = ed.current_input]_vars

\* C10, its case: the flag was set, one keystroke read after that was
\* processed, and the editor has left main_loop.
C10_Witness == stop_event /\ pcE = "done" /\ stopkeys = 1

\* The interrupt notice is the last burst written.
NoticeWritten == wlog # <<>> /\ Last(wlog).w[1] = Editor /\ Last(wlog).w[2] = "notice"

\* C11: a KeyboardInterrupt raised by the keystroke read writes the stopping
\* notice, then calls bot.shutdown(), then is raised again, in that order;
\* from the interrupt on the editor is never Editing again and reads and
\* applies no further keystroke.
C11_InterruptStopsEditor ==
    /\ [](pcE \in {"intr", "raised"} => ed.stopped /\ ~Editing)
    /\ [][/\ (pcE = "readkey" /\ pcE' = "intr") =>
                 /\ Len(wlog') = Len(wlog) + 1
                 /\ NoticeWritten'
                 /\ shutdowns' = shutdowns
          /\ pcE = "intr" =>
                 \/ pcE' = "intr" /\ shutdowns' = shutdowns
                 \/ pcE' = "raised" /\ shutdowns' = shutdowns + 1
          /\ pcE = "raised" => pcE' = "raised" /\ shutdowns' = shutdowns
          /\ pcE \in {"intr", "raised"} =>
                 /\ nkeys' = nkeys
                 /\ key' = key
                 /\ ed' = ed]_vars

\* C11, its case: the interrupt was raised while a buffer was being edited,
\* the notice was written, the collaborator was shut down and the exception
\* left the editor.
C11_Witness ==
    /\ pcE = "raised"
    /\ shutdowns = 1
    /\ ed.current_input # <<>>
    /\ \E i \in 1..Len(wlog) : wlog[i].w[2] = "notice"

\* C12: whatever calls of try_patch_stdin_stdout_behavior and
\* try_restore_stdin_stdout_behavior are made and whichever way main_bot ends
\* (return, quit, exception, keyboard interrupt), the process exits only
\* through the restore of __main__'s finally clause and with the terminal's
\* input mode as it was before the first patch; a patch made while a mode is
\* saved does not overwrite the saved mode, and a restore made while none is
\* saved changes nothing.
C12_ModeRestoredOnExit ==
    /\ [](main.pc \in {"exit", "raised"} =>
              /\ tty.mode = main.mode0
              /\ original_stdin_mode = NoMode)
    /\ [](original_stdin_mode # NoMode => original_stdin_mode = {main.mode0})
    /\ [][/\ (main'.pc \in {"exit", "raised"} /\ main.pc # main'.pc) =>
                 /\ main.pc = "finally"
                 /\ tty' = try_restore_stdin_stdout_behavior(tty, original_stdin_mode).tty
          /\ original_stdin_mode # NoMode =>
                 original_stdin_mode' \in {original_stdin_mode, NoMode}
          /\ (original_stdin_mode = NoMode /\ original_stdin_mode' = NoMode) =>
                 tty' = tty]_vars

\* C12, its case: on a terminal with echo and line mode on, patch and restore
\* were called again MaxModeCalls times, a keyboard interrupt ended main_bot
\* and the process is gone with the mode it started with.
C12_Witness ==
    /\ main.pc = "raised"
    /\ main.path = "interrupt"
    /\ main.calls = MaxModeCalls
    /\ tty.stdout_isatty /\ tty.stdin_isatty
    /\ {"ECHO", "ICANON"} \subseteq main.mode0
    /\ tty.mode = main.mode0

\* C13: when a write to stdout or stderr raises inside Console.writeln, the
\* exception does not reach the producer and Console._LOCK is released: a
\* producer back in its caller has no exception of the call and does not own
\* the lock.
C13_WriteErrorsDropped ==
    \A b \in Bg : pcB[b] = "idle" => arg[b].exc = "" /\ lock.owner # b

\* The editor's state after the key ch was processed k times in state s.
RECURSIVE PressTimes(_, _, _)
PressTimes(s, ch, k) ==
    IF k = 0 THEN s
    ELSE PressTimes(ProcessKey(s, WhoBatch, ch, <<>>, TRUE), ch, k - 1)

\* C14: in every Editing state, for every k from 1 to the length of the
\* history, Up pressed k times and then Down pressed k times leaves the
\* buffer and cursor_index as they were, also when the buffer holds text that
\* was not submitted.
C14_UpDownRestores ==
    Editing =>
        \A k \in 1..Len(ed.history) :
            /\ PressTimes(PressTimes(Cur, "UP", k), "DOWN", k).ed.current_input
                   = ed.current_input
            /\ PressTimes(PressTimes(Cur, "UP", k), "DOWN", k).ed.current_input_idx
                   = ed.current_input_idx

\* The last n elements of seq (all of it when it has fewer).
LastN(seq, n) == [i \in 1..Min(Len(seq), n) |-> seq[Len(seq) - Min(Len(seq), n) + i]]

\* C15: with max_history_lines = cap > 0 the history never holds more than
\* cap entries; each Enter makes it the cap most recent of the buffers
\* submitted so far, in the order of submission, so that after cap + m
\* submissions it holds exactly cap entries.
C15_HistoryCapped ==
    /\ [](Len(ed.history) <= max_history_lines)
    /\ [](pcE = "readkey" => Len(ed.history) = Min(nenter, max_history_lines))
    /\ [][(pcE = "batch" /\ pcE' # "batch" /\ key \in EnterKeys) =>
              ed'.history = LastN(Append(ed.history, ed.current_input),
                                  max_history_lines)]_vars

\* C15, its case: one submission more than the cap was made, of buffers that
\* differ, and the history holds the two most recent.
C15_Witness ==
    /\ pcE = "readkey"
    /\ nenter = max_history_lines + 1
    /\ Len(ed.history) = max_history_lines
    /\ ed.history[1] # ed.history[2]
    /\ ed.history[2] = <<>>

\* C16: a Console.writeln that begins while the stdout callback reports no
\* input in progress and nothing is displayed on the cursor's line writes no
\* erase-line and no cursor-movement sequence before its text, whatever
\* Console._last_source is.
C16_NoEraseOfNothing ==
    [][\A b \in Bg :
           (/\ pcB[b] = "call" /\ pcB'[b] # "call"
            /\ arg[b].target = "stdout"
            /\ Console_get_console_stdout(Cur) = <<>>
            /\ term.rows[term.r] = BlankRow)
           => \A i \in 1..Len(out') : out'[i].k \notin {"EL2", "CUU", "CUD", "CUF", "CUB"}]_vars

\* cursor_index as _readline clamps it before it processes a key
ClampedIdx == Max(0, Min(ed.current_input_idx, Len(ed.current_input)))

\* The editor ends the batch of a printable character.
TypesChar == pcE = "batch" /\ pcE' # "batch" /\ key \in Chars

\* C17: with insert_mode off, typing the printable character c with the cursor
\* at index i of the buffer B (0 <= i <= len(B)) makes the buffer
\* B[0..i) + c + B[i..) and cursor_index i + 1.
C17_TypingInserts ==
    [][(TypesChar /\ ~ed.insert_mode) =>
           /\ ed'.current_input =
                  SubSeq(ed.current_input, 1, ClampedIdx) \o <<Tok(key)>>
                      \o From(ed.current_input, ClampedIdx + 1)
           /\ ed'.current_input_idx = ClampedIdx + 1]_vars

\* C17, its case: 'a', 'a', Left, then ' ' typed between the two: the buffer
\* is 'a a' and the cursor is after the blank.
C17_Witness ==
    /\ pcE = "rl" /\ key = " " /\ nkeys = 4
    /\ ~ed.insert_mode
    /\ ed.current_input = Str(<<"a", " ", "a">>)
    /\ ed.current_input_idx = 2

\* C18: with insert_mode on, typing c with the cursor at index i < len(B)
\* replaces B[i] and leaves the length alone, at i = len(B) it appends c; the
\* cursor_index is i + 1.
C18_TypingOverwrites ==
    [][(TypesChar /\ ed.insert_mode) =>
           /\ ed'.current_input =
                  IF ClampedIdx < Len(ed.current_input)
                  THEN [ed.current_input EXCEPT ![ClampedIdx + 1] = Tok(key)]
                  ELSE Append(ed.current_input, Tok(key))
           /\ ed'.current_input_idx = ClampedIdx + 1]_vars

\* C18, its case: ' ', ' ', Home, Insert, then 'a' typed over the first
\* blank: the buffer is 'a ' and the cursor is after the 'a'.
C18_Witness ==
    /\ pcE = "rl" /\ key = "a" /\ nkeys = 5
    /\ ed.insert_mode
    /\ ed.current_input = Str(<<"a", " ">>)
    /\ ed.current_input_idx = 1

\* buf is words separated by single blanks: it neither begins nor ends with a
\* blank and no two blanks are adjacent.
Words(buf) ==
    /\ buf # <<>>
    /\ buf[1] # Tok(" ") /\ buf[Len(buf)] # Tok(" ")
    /\ \A n \in 1..(Len(buf) - 1) : ~(buf[n] = Tok(" ") /\ buf[n + 1] = Tok(" "))

\* a word starts at index j (from 0) of buf
WordStart(buf, j) ==
    j = 0 \/ (j < Len(buf) /\ buf[j] = Tok(" ") /\ buf[j + 1] # Tok(" "))

\* The editor ends the batch of the key ch.
Pressed(ch) == pcE = "batch" /\ pcE' # "batch" /\ key = ch

\* C19: in a buffer of words separated by blanks, with the cursor at i > 0,
\* Ctrl+Left moves the cursor to the largest j < i at which a word starts.
C19_CtrlLeftToWordStart ==
    [][(Pressed("CTRL_LEFT") /\ Words(ed.current_input) /\ ClampedIdx > 0) =>
           /\ ed'.current_input_idx < ClampedIdx
           /\ WordStart(ed.current_input, ed'.current_input_idx)
           /\ \A j \in (ed'.current_input_idx + 1)..(ClampedIdx - 1) :
                  ~WordStart(ed.current_input, j)]_vars

\* C20: in a buffer of words separated by blanks, with the cursor at i such
\* that a word starts at an index greater than i, Ctrl+Right moves the cursor
\* to the smallest such index, also when the cursor is on a blank, and never
\* beyond the length of the buffer.
C20_CtrlRightToWordStart ==
    [][(Pressed("CTRL_RIGHT") /\ Words(ed.current_input)) =>
           /\ ed'.current_input_idx <= Len(ed.current_input)
           /\ (\E j \in (ClampedIdx + 1)..Len(ed.current_input) :
                   WordStart(ed.current_input, j)) =>
                  /\ ed'.current_input_idx > ClampedIdx
                  /\ WordStart(ed.current_input, ed'.current_input_idx)
                  /\ \A j \in (ClampedIdx + 1)..(ed'.current_input_idx - 1) :
                         ~WordStart(ed.current_input, j)]_vars

\* The buffer after text was pasted at index i of buf.
Pasted(buf, i, text, insert_mode) ==
    SubSeq(buf, 1, i) \o text
        \o (IF insert_mode THEN From(buf, i + Len(text) + 1) ELSE From(buf, i + 1))

\* C21: Ctrl+V with the clipboard text T and the cursor at index i of the
\* buffer B makes the buffer B[0..i) + T + B[i..) when insert_mode is off and
\* B[0..i) + T + B[i+len(T)..) when it is on, and the cursor_index
\* i + len(T); the paste is made in one batch during which the editor holds
\* Console._LOCK, and the batch's writes are not split by another thread's.
C21_PasteIsOneInsert ==
    /\ [][Pressed("CTRL_V") =>
              \E text \in Clips :
                  /\ ed'.current_input =
                         Pasted(ed.current_input, ClampedIdx, text, ed.insert_mode)
                  /\ ed'.current_input_idx = ClampedIdx + Len(text)]_vars
    /\ [](pcE = "batch" => lock.owner = Editor)
    /\ [](\A i, k \in 1..Len(wlog) :
              (i < k /\ wlog[i].w = wlog[k].w /\ wlog[i].w[2] = "batch")
              => \A j \in i..k : wlog[j].w = wlog[i].w /\ wlog[j].held)

\* C21, its case: ' a' pasted, Home, Insert, then 'a' pasted over the blank,
\* the 'a' after it kept, while the producers have called writeln.
C21_Witness ==
    /\ pcE = "rl" /\ key = "CTRL_V" /\ nkeys = 4
    /\ ed.insert_mode
    /\ ed.current_input = Str(<<"a", "a">>)
    /\ ed.current_input_idx = 1
    /\ nwrites > 0

\* C22 as stated: each Enter pressed while editing hands the submitted text to
\* bot.send_bot_command exactly once, whatever the buffer holds (no quit line
\* having been entered): when the editor waits for the next keystroke the
\* lines handed off are as many as the Enter keys pressed.
C22_OneHandOffPerEnter ==
    (pcE = "readkey" /\ ~ed.stopped) => Len(sent) = nenter

\* r is buf without the blanks at its two ends.
IsStripOf(r, buf) ==
    /\ r # <<>> => r[1] # Tok(" ") /\ r[Len(r)] # Tok(" ")
    /\ \E i \in 0..(Len(buf) - Len(r)) :
           /\ SubSeq(buf, i + 1, i + Len(r)) = r
           /\ \A n \in (1..i) \cup ((i + Len(r) + 1)..Len(buf)) : buf[n] = Tok(" ")

\* C22, amended: an Enter returns the buffer stripped of blanks at both ends;
\* main_loop hands a stripped line that is not empty and not a quit line to
\* bot.send_bot_command exactly once, and hands nothing off for an empty or
\* blank buffer; nothing else hands a line off.
C22_OneHandOffPerLine ==
    /\ [][Pressed("ENTER") => IsStripOf(line', ed.current_input)]_vars
    /\ [][IF pcE = "submitted" /\ pcE' # "submitted" /\ line # <<>> /\ line \notin QuitLines
          THEN sent' = Append(sent, line)
          ELSE sent' = sent]_vars
    /\ [](Len(sent) <= nenter)

\* C22, its case: Enter on the empty buffer, then ' a' and Enter: one line,
\* 'a', was handed off for the two Enter keys.
C22_Witness ==
    /\ pcE = "readkey"
    /\ nenter = 2
    /\ ed.history = <<<<>>, Str(<<" ", "a">>)>>
    /\ sent = <<Str(<<"a">>)>>

\* text is one of the quit commands \q, !q, \quit, !quit in any case
IsQuit(text) ==
    \E q \in {<<"\\", "q">>, <<"!", "q">>, <<"\\", "q", "u", "i", "t">>,
              <<"!", "q", "u", "i", "t">>} :
        /\ Len(q) = Len(text)
        /\ \A n \in 1..Len(q) :
               \/ text[n].k = q[n]
               \/ <<text[n].k, q[n]>> \in {<<"Q", "q">>, <<"U", "u">>, <<"I", "i">>, <<"T", "t">>}

\* C23: a submitted line that is a quit command in any case is never handed
\* to bot.send_bot_command; the editor calls bot.shutdown() once for it and is
\* stopped, and from then on no keystroke is read or processed.
C23_QuitStopsEditor ==
    /\ [](\A n \in 1..Len(sent) : ~IsQuit(sent[n]))
    /\ [][(pcE = "submitted" /\ pcE' # "submitted" /\ IsQuit(line)) =>
              /\ sent' = sent
              /\ shutdowns' = shutdowns + 1
              /\ ed'.stopped
              /\ pcE' = "done"]_vars
    /\ [][pcE = "done" =>
              /\ pcE' = "done"
              /\ shutdowns' = shutdowns
              /\ nkeys' = nkeys
              /\ ed' = ed]_vars

\* C23, its case: ' ', then '!Q' pasted, Enter: nothing was handed off, the
\* collaborator was shut down once and the editor has stopped.
C23_Witness ==
    /\ pcE = "done" /\ ed.stopped
    /\ shutdowns = 1
    /\ sent = <<>>
    /\ Last(ed.history) = Str(<<" ", "!", "Q">>)

\* Some colour (SGR) sequence is among what the editor thread or a producer
\* wrote to the streams.
ColorWritten == \E n \in 1..Len(out) : out[n].k \in ColorCodes

\* C24: while Console.enable_colors is False no SGR sequence is written to
\* stdout or stderr by any operation, the erase path of writeln and the
\* redraw of the prompt included.
C24_NoColorCodes == ~con.enable_colors => ~ColorWritten

\* C25: the state of the editor is written by the editor thread only: the
\* callbacks registered with Console, evaluated by a producer thread, assign
\* no field of the editor.
C25_OnlyEditorWrites == ed.prompt_thread = Editor

\* C25, the values: whatever a producer does, every field of the editor holds
\* the value it held.
C25_ProducersKeepValues ==
    [][pcB' # pcB => [ed' EXCEPT !.prompt_thread = Editor]
                      = [ed EXCEPT !.prompt_thread = Editor]]_vars

\* A producer's call of writeln enters LockedWriter while the prompt and a
\* non-empty input are what the screen shows from the prompt's first row on.
ErasesPending(b) ==
    /\ pcB[b] = "call" /\ pcB'[b] = "in"
    /\ arg[b].target = "stdout"
    /\ AtPrompt /\ PromptPinned
    /\ con.last_source = "c"
    /\ Len(ed.current_input) > 0

\* C26: when writeln erases displayed pending content of visible length L on
\* a terminal W columns wide, the ceil(L / W) rows from the prompt's first row
\* on are blank afterwards, wherever the cursor was, and no cell of the rows
\* of earlier output is altered.
C26_ErasesItsRowsOnly ==
    [][\A b \in Bg : ErasesPending(b) =>
           /\ \A r \in 1..(term.o - 1) : term'.rows[r] = term.rows[r]
           /\ \A r \in term.o..(term.o + (Len(Expected) + MaxCols - 1) \div MaxCols - 1) :
                  \A c \in 1..MaxCols : term'.rows[r][c] = " "]_vars

\* The cursor is k cells after the first cell of the text, along the rows.
CursorAt(t, k) == t.r - t.o = k \div MaxCols /\ t.c - 1 = k % MaxCols

\* C27: move_cursor_left_relative(n, k), called with the cursor at row
\* k div W, column k mod W, leaves it at row (k - n') div W, column
\* (k - n') mod W for n' = min(n, k), column 0 of an earlier row included.
C27_LeftMoveLands ==
    [][\A n \in 0..(MaxCols * MaxRows) :
           CallLeft(n) => CursorAt(term', CursorOffset(term) - Min(n, CursorOffset(term)))]_vars

\* C28: move_cursor_right_relative(n, k), called with the cursor at row
\* k div W, column k mod W, leaves it at row (k + n) div W, column
\* (k + n) mod W, also when k >= W.
C28_RightMoveLands ==
    [][\A n \in 0..(MaxCols * MaxRows) :
           CallRight(n) => CursorAt(term', CursorOffset(term) + n)]_vars

\* What the screen shows from the first cell of the prompt on, and what
\* Console._console_stdout holds, both without colours and trailing blanks.
Rendered ==
    RStrip([k \in 1..((MaxRows - term.o + 1) * MaxCols) |-> Tok(CellAt(k - 1))], {" "})
Buffered == RStrip(Filter(con.console_stdout, ColorCodes), {" "})

\* C29: after every operation of Console or of the editor the concatenation
\* of Console._console_stdout is the text the screen shows after the last
\* newline.
C29_BufferIsScreen == (Editing /\ lock.owner = NoOwner) => Buffered = Rendered

\* A producer's call of writeln / writeln_stderr returns, and the step wrote
\* visible text: the prompt, redrawn by __exit__.
WritelnReturns(b) == pcB[b] = "exit" /\ pcB'[b] = "idle"
Redrew == \E n \in (Len(out) + 1)..Len(out') : out'[n].k \in Printable

\* C30 as stated: after Console.writeln / writeln_stderr returns the
\* last-writer marker is '', whether or not the call redrew the prompt.
C30_MarkerCleared ==
    [][\A b \in Bg : WritelnReturns(b) => con'.last_source = ""]_vars

\* C30: after Console.writeln / writeln_stderr returns the last-writer marker
\* is 'c' when the call redrew the prompt and '' when it did not.
C30_MarkerTellsRedraw ==
    [][\A b \in Bg : WritelnReturns(b) =>
           con'.last_source = IF Redrew THEN "c" ELSE ""]_vars

\* C30, its case: a writeln has returned with the prompt and the input
\* redrawn, and the marker says the console wrote last.
C30_Witness ==
    /\ AtPrompt /\ BgReturned
    /\ Len(ed.current_input) > 0
    /\ con.last_source = "c"
    /\ lock.owner = NoOwner

\* Producer b takes a step of a call on stream tn.
StepOn(b, tn) == pcB[b] # "idle" /\ pcB'[b] # pcB[b] /\ arg[b].target = tn

\* C31: the last-writer marker is kept per stream: a write to stderr leaves
\* the marker that governs erase-and-redraw on stdout as it was.
C31_StderrKeepsStdoutMarker ==
    [][\A b \in Bg : StepOn(b, "stderr") => con'.last_source = con.last_source]_vars

\* text has a newline somewhere; seq ends with text
HasNewline(text) == \E n \in 1..Len(text) : text[n].k = "\n"
EndsWithText(seq, text) ==
    /\ Len(seq) >= Len(text)
    /\ SubSeq(seq, Len(seq) - Len(text) + 1, Len(seq)) = text

\* C32: Console._write(text) writes text and no newline after it, sets the
\* last-writer marker to console, and empties the pending console buffer when
\* text has a newline anywhere, else appends the escape-stripped text to it.
C32_WriteKeepsBuffer ==
    [][\A text \in WriteTexts, replied \in BOOLEAN :
           CallWrite(text, replied) =>
               /\ EndsWithText(out', text)
               /\ con'.last_source = "c"
               /\ con'.console_stdout =
                      IF HasNewline(text) THEN <<>>
                      ELSE con.console_stdout \o remove_escapes(text)]_vars

\* The keystroke ch, handled, leaves the buffer as it was and the cursor at i.
MovesTo(ch, i) ==
    Pressed(ch) => /\ ed'.current_input = ed.current_input
                   /\ ed'.current_input_idx = i

\* C33: after every keystroke 0 <= cursor_index <= len(buffer); Left and Right
\* move the cursor by one and change nothing at index 0 and at len(buffer),
\* Home sets it to 0 and End to len(buffer); none of the four changes the
\* buffer.
C33_CursorStaysInBuffer ==
    /\ [](AtPrompt => ed.current_input_idx \in 0..Len(ed.current_input))
    /\ [][/\ MovesTo("LEFT", Max(0, ed.current_input_idx - 1))
          /\ MovesTo("RIGHT", Min(Len(ed.current_input), ed.current_input_idx + 1))
          /\ MovesTo("HOME", 0)
          /\ MovesTo("END", Len(ed.current_input))]_vars

\* C33, its case: 'a', 'a', Left, Left and a Left more at index 0.
C33_Witness ==
    /\ pcE = "rl" /\ key = "LEFT" /\ nkeys = 5
    /\ Len(ed.current_input) = 2
    /\ ed.current_input_idx = 0

\* buf without its element at position p (counted from 1)
Without(buf, p) == [k \in 1..(Len(buf) - 1) |-> IF k < p THEN buf[k] ELSE buf[k + 1]]

\* The keystroke ch, handled, changed neither buffer nor cursor and wrote
\* nothing.
NoEffect(ch) ==
    Pressed(ch) => /\ ed'.current_input = ed.current_input
                   /\ ed'.current_input_idx = ed.current_input_idx
                   /\ out' = out /\ wlog' = wlog /\ term' = term

C35_EnterFilesTheLine ==
    /\ [](ed.history_idx \in 0..Len(ed.history))
    /\ [][Pressed("ENTER") =>
              /\ ed'.history # <<>> /\ Last(ed'.history) = ed.current_input
              /\ ed'.current_input = <<>>
              /\ ed'.current_input_idx = 0
              /\ ed'.history_idx = Len(ed'.history)
              /\ con'.console_stdout = <<>>
              /\ line' # <<>> => line'[1] # Tok(" ") /\ line'[Len(line')] # Tok(" ")
              /\ \E i \in 0..(Len(ed.current_input) - Len(line')) :
                     ed.current_input = [n \in 1..i |-> Tok(" ")] \o line'
                         \o [n \in 1..(Len(ed.current_input) - Len(line') - i) |-> Tok(" ")]]_vars

\* C35, its case: 'a', Enter, then Up (browsing the history) and Enter again:
\* the entry shown is filed a second time and the browsing is over.
C35_Witness ==
    /\ pcE = "submitted" /\ key = "ENTER" /\ nkeys = 4
    /\ ed.history = <<Str(<<"a">>), Str(<<"a">>)>>
    /\ ed.history_idx = 2
    /\ ed.current_input = <<>>
    /\ line = Str(<<"a">>)

\* C36: pressing Up never clears the input: a buffer that is not empty is not
\* empty after Up, also when the history is empty or the history cursor
\* stands at 0.
C36_UpKeepsInput ==
    [][(Pressed("UP") /\ ed.current_input # <<>>) => ed'.current_input # <<>>]_vars

\* C37: Tab, Ctrl+R, Escape and every other special key without a function
\* leave buffer, cursor_index, history, history cursor and insert_mode as they
\* were, write no text and no escape sequence to the terminal, and leave
\* Console._LOCK released once the keystroke has been handled.
C37_IdleKeysDoNothing ==
    [][\A ch \in NoOpKeys : Pressed(ch) =>
           /\ ed'.current_input = ed.current_input
           /\ ed'.current_input_idx = ed.current_input_idx
           /\ ed'.history = ed.history
           /\ ed'.history_idx = ed.history_idx
           /\ ed'.insert_mode = ed.insert_mode
           /\ out' = out /\ wlog' = wlog /\ term' = term
           /\ lock'.owner = NoOwner]_vars

\* The editor and the terminal after k presses of Insert from the current
\* state.
InsertPressed(k) == PressTimes(Cur, "INSERT", k)

\* The terminal cursor is on the cell that current_input_idx names.
CursorPlaced == CursorAt(term, ed.console_prompt_len + ed.current_input_idx)

\* C38: with the prompt and the input on screen and the cursor on its cell,
\* one press of Insert flips insert_mode and leaves the buffer, cursor_index,
\* the history and the history cursor as they were; a second press brings the
\* editor state, the rows of the screen and the terminal cursor back to what
\* they were before the first.
C38_InsertTwiceRestores ==
    (Editing /\ PromptPinned /\ CursorPlaced) =>
        /\ InsertPressed(1).ed.insert_mode = ~ed.insert_mode
        /\ InsertPressed(1).ed.current_input = ed.current_input
        /\ InsertPressed(1).ed.current_input_idx = ed.current_input_idx
        /\ InsertPressed(1).ed.history = ed.history
        /\ InsertPressed(1).ed.history_idx = ed.history_idx
        /\ InsertPressed(2).ed = ed
        /\ InsertPressed(2).term.rows = term.rows
        /\ InsertPressed(2).term.r = term.r
        /\ InsertPressed(2).term.c = term.c

\* The cursor query that a call of Console._write makes from the current
\* state, and that call as a whole.
QueryNow(replied) ==
    get_cursor_pos(console_write_head([Cur EXCEPT !.out = <<>>], WhoWrite, "stdout"),
                   WhoWrite, replied)

WriteNow(text, replied) ==
    Console_write([Cur EXCEPT !.out = <<>>], WhoWrite, "stdout", text, replied)

\* C39: whenever Console._write would query the cursor, get_cursor_pos raises
\* nothing, whether the terminal's reply is well formed or not and whether
\* the streams of the query work or not; when the query failed and the
\* caller's stream works, the caller goes on and writes its text right
\* after the writes of the query, without a newline of its own.
C39_QueryNeverRaises ==
    (pcE = "init" /\ CanAcquire(lock, Editor) /\ NeedsCursorQuery(Cur, "stdout")) =>
        \A replied \in BOOLEAN :
            /\ QueryNow(replied).exc = ""
            /\ ("stdout" \notin broken /\ (~replied \/ "stdin" \in broken)) =>
                   /\ WriteNow(Str(<<"e">>), replied).exc = ""
                   /\ WriteNow(Str(<<"e">>), replied).out
                          = QueryNow(replied).out \o Console_format_text(Cur, Str(<<"e">>))

\* Producer b's whole call of Console.writeln / writeln_stderr (__enter__,
\* writeln, __exit__) made from the current state.
WritelnNow(b, tn) ==
    LockedWriter_exit(
        LockedWriter_writeln(
            LockedWriter_enter([Cur EXCEPT !.out = <<>>], <<b, "writeln", nwrites + 1>>, tn, ""),
            <<b, "writeln", nwrites + 1>>, Str(<<"e">>)),
        <<b, "writeln", nwrites + 1>>)

IsGlyph(t) == t.k \in Printable

\* C40: once the editor has stopped (_stopped is set, by the quit command or
\* by a keyboard interrupt), a call of Console.writeln / writeln_stderr that
\* starts after that shows its own text and nothing else: neither the prompt
\* nor input left in the buffer is drawn again below its output.
C40_NoRedrawAfterStop ==
    (ed.stopped /\ lock.owner = NoOwner) =>
        \A b \in Bg, tn \in {"stdout", "stderr"} :
            pcB[b] = "idle" =>
                SelectSeq(WritelnNow(b, tn).out, IsGlyph) = Str(<<"e">>)

====
